---- MODULE Spec2Model ----
(***************************************************************************)
(* Feature controllers of the Tempest rules engine: purchased, granted and *)
(* effective ranks of a character's features, and the propagation of       *)
(* grants and discounts when a feature crosses the zero-rank boundary.     *)
(*                                                                         *)
(* The character is modelled with one set of variables; every operation    *)
(* of the engine (purchase, load, reconcile) is one atomic action that     *)
(* runs the whole synchronous cascade of reconcile()/propagate() calls.    *)
(***************************************************************************)
EXTENDS Integers, Sequences, FiniteSets, TLC

(***************************************************************************)
(* Bounds of the model.                                                    *)
(***************************************************************************)
\* Largest fiat CP award (model.metadata.awards["cp"]) a character starts with.
MaxAward == 2
\* Largest rank delta a purchase request carries (positive or negative).
MaxDelta == 2
\* Depth at which the interpreter gives up on a propagate/reconcile recursion
\* (Python's recursion limit, scaled down).
RecursionLimit == 6
\* Longest run of increases that is afterwards sold back in reverse.
MaxUndo == 4
\* The XP level of the character under test.
XpLevel == 3
\* Pricing inputs: rank cap, granted ranks, discount and budget of a quote
MaxCostRanks == 5
MaxGranted == 2
MaxDiscount == 2
MaxBudget == 6
\* Aggregator: the largest magnitude a modifier may reach
MaxModValue == 1
MaxMods == 5
MaxModSum == 5
MaxNumber == 2
\* The level the character's XP allows (the multiclass test awards level 15)
MaxLevel == 12

(***************************************************************************)
(* The ruleset: feature definitions with the three forms of grant          *)
(* declaration (bare string, list, mapping), a discount mapping, a         *)
(* requirement, and a class.                                               *)
(***************************************************************************)
Skills == {"basic-skill", "granted-skill", "grants-skill", "list-skill"}
Classes == {"fighter"}
Features == Skills \cup Classes
Attributes == {"lp", "cp", "level"}
\* An id that names no feature of the ruleset, and the ids a caller may name.
UndefinedFeature == "no-such-feature"
FeatureIds == Features \cup {UndefinedFeature}

feature_type(f) == IF f \in Classes THEN "class" ELSE "skill"

\* definition.ranks
ranks(f) ==
  CASE f = "basic-skill" -> 2
    [] f = "granted-skill" -> 2
    [] f = "grants-skill" -> 1
    [] f = "list-skill" -> 1
    [] f = "fighter" -> 4
    [] OTHER -> 1

\* definition.cost (the flat, per-rank integer form)
cost_def(f) ==
  CASE f = "basic-skill" -> 1
    [] f = "granted-skill" -> 2
    [] f = "grants-skill" -> 4
    [] f = "list-skill" -> 1
    [] OTHER -> 0

NoGrant == [kind |-> "none"]
StrGrant(id, value) == [kind |-> "str", id |-> id, value |-> value]
DictGrant(items) == [kind |-> "dict", items |-> items]
ListGrant(items) == [kind |-> "list", items |-> items]

\* The grants of a ruleset that close a cycle, basic-skill taking back the
\* rank of the skill that grants it.
CyclicGrantsDecl(f) ==
  CASE f = "grants-skill" -> StrGrant("granted-skill", 1)
    [] f = "granted-skill" -> DictGrant(<< <<"basic-skill", 1>>, <<"lp", 2>> >>)
    [] f = "basic-skill" -> StrGrant("granted-skill", -1)
    [] f = "fighter" -> StrGrant("basic-skill", 1)
    [] OTHER -> NoGrant

\* The grants of the example ruleset
ExampleGrantsDecl(f) ==
  CASE f = "grants-skill" -> StrGrant("granted-skill", 1)
    [] f = "granted-skill" -> DictGrant(<< <<"basic-skill", 1>>, <<"lp", 2>> >>)
    [] f = "list-skill" ->
         ListGrant(<< StrGrant("granted-skill", 2),
                      DictGrant(<< <<"basic-skill", 1>> >>),
                      StrGrant("granted-skill", 1) >>)
    [] f = "fighter" -> StrGrant("basic-skill", 1)
    [] OTHER -> NoGrant

\* The discounts of the example ruleset
ExampleDiscountsDecl(f) ==
  CASE f = "list-skill" -> DictGrant(<< <<"grants-skill", 1>> >>)
    [] OTHER -> NoGrant

\* The discounts of a ruleset in which list-skill also makes every rank of
\* granted-skill cheaper
RankDiscountsDecl(f) ==
  CASE f = "list-skill" ->
         DictGrant(<< <<"grants-skill", 1>>, <<"granted-skill", 1>> >>)
    [] OTHER -> NoGrant

\* definition.requires: a list of "prop:value" expressions
requires(f) ==
  CASE f = "basic-skill" -> << [prop |-> "granted-skill", value |-> 1] >>
    [] OTHER -> << >>

cp_baseline == 1
cp_per_level == 2

\* Iteration orders of a set of property ids (set(grants.keys()).union(...)):
\* the order the ids were gathered in, or the reverse of it.
HashSeeds == {"forward", "reverse"}

(***************************************************************************)
(* State of one character.                                                 *)
(***************************************************************************)
VARIABLES
  purchased,      \* model.skills / model.classes: purchased ranks by id (0 = none)
  model_keys,     \* ids that have an entry in the persisted model
  primary_class,  \* model.primary_class ("none" for None)
  starting_class, \* model.starting_class ("none" for None)
  awarded_cp,     \* model.metadata.awards["cp"]
  linked,         \* ids whose controller is registered in character.features
  eff,            \* controller._effective_ranks (meaningful iff linked)
  granted,        \* controller._granted_ranks
  discount,       \* controller._discount
  attr,           \* AttributeController._granted_ranks by attribute id
  sent_log,       \* the propagate() calls made by the last operation
  overflow,       \* the last operation hit the recursion limit
  lastOp,         \* the last operation and whether its Decision was a success
  sentOnActivation, \* what each active feature sent when it activated
  undo,           \* successful increases not yet sold back, latest last, each
                  \* with the granted ranks held before it
  costing,        \* one priced feature: its cost definition, ranks, discount,
                  \* the budget asked about and the answer computed
  agg,            \* an Aggregator: each property's modifiers and caches, and
                  \* the last call made on it with the value it returned
  req,            \* one requirement: its text, the rules that read it, what
                  \* it parsed to, and the last rendering or evaluation
  sheet,          \* a multiclass character: the ranks held in each class and
                  \* the last attribute read or requirement asked about
  opts,           \* a character's option skills: the ranks purchased of each
                  \* option, and the last query with its answer
  ruleset,        \* the ruleset the engine was loaded with: the example
                  \* ruleset, one whose grants close a cycle, or one with a
                  \* discount on a skill of several ranks
  xp_level        \* character.xp_level: the level the character's XP awards
                  \* entitle it to

vars == <<purchased, model_keys, primary_class, starting_class, awarded_cp,
          linked, eff, granted, discount, attr, sent_log, overflow, lastOp,
          sentOnActivation, undo, costing, agg, req, sheet, opts, ruleset,
          xp_level>>

\* definition.grants, of the ruleset the engine was loaded with
GrantsDecl(f) ==
  IF ruleset = "cyclic" THEN CyclicGrantsDecl(f) ELSE ExampleGrantsDecl(f)

\* definition.discounts, of the ruleset the engine was loaded with
DiscountsDecl(f) ==
  IF ruleset = "rank-discounts" THEN RankDiscountsDecl(f)
  ELSE ExampleDiscountsDecl(f)

Min(a, b) == IF a < b THEN a ELSE b
Max(a, b) == IF a > b THEN a ELSE b

\* The mutable character as one value, threaded through the operators below.
\* trace collects the reconcile() calls of the operation in call order, each
\* with what it sent and with what the feature had sent when it activated.
\* hash_seed is the iteration order of sets in the running interpreter.
Cur(seed) ==
  [purchased |-> purchased, model_keys |-> model_keys,
   primary_class |-> primary_class, starting_class |-> starting_class,
   awarded_cp |-> awarded_cp, linked |-> linked, eff |-> eff,
   granted |-> granted, discount |-> discount, attr |-> attr,
   trace |-> << >>, overflow |-> FALSE, depth |-> 0,
   sentOnActivation |-> sentOnActivation, hash_seed |-> seed]

(***************************************************************************)
(* FeatureController                                                       *)
(***************************************************************************)
max_ranks(f) == ranks(f)

\* Fault model: paid_ranks that never refunds a purchased rank.
paid_ranks_unrefunded(purchased_ranks, granted_ranks, cap) == purchased_ranks

\* FeatureController.paid_ranks, on the three numbers it reads
paid_ranks_of(purchased_ranks, granted_ranks, cap) ==
  IF purchased_ranks + granted_ranks <= cap THEN purchased_ranks
  ELSE IF granted_ranks < cap THEN cap - granted_ranks
  ELSE 0

paid_ranks(s, f) == paid_ranks_of(s.purchased[f], s.granted[f], max_ranks(f))

IsFalsy(g) ==
  \/ g.kind = "none"
  \/ g.kind \in {"dict", "list"} /\ g.items = << >>

\* Fault model: _gather_grants whose mapping branch never negates.
RECURSIVE gather_grants_unsigned(_, _, _)
gather_grants_unsigned(grants, from_ranks, to_ranks) ==
  IF IsFalsy(grants) THEN << >>
  ELSE IF grants.kind = "str" THEN
    LET value == IF grants.value # 0 THEN grants.value ELSE 1
    IN << <<grants.id, IF to_ranks <= 0 THEN -value ELSE value>> >>
  ELSE IF grants.kind = "list" THEN
    gather_grants_unsigned(Head(grants.items), from_ranks, to_ranks)
      \o gather_grants_unsigned(ListGrant(Tail(grants.items)), from_ranks, to_ranks)
  ELSE
    [i \in 1..Len(grants.items) |-> <<grants.items[i][1], grants.items[i][2]>>]

RECURSIVE gather_grants(_, _, _)
gather_grants(grants, from_ranks, to_ranks) ==
  IF IsFalsy(grants) THEN << >>
  ELSE IF grants.kind = "str" THEN
    LET value == IF grants.value # 0 THEN grants.value ELSE 1
    IN << <<grants.id, IF to_ranks <= 0 THEN -value ELSE value>> >>
  ELSE IF grants.kind = "list" THEN
    gather_grants(Head(grants.items), from_ranks, to_ranks)
      \o gather_grants(ListGrant(Tail(grants.items)), from_ranks, to_ranks)
  ELSE
    [i \in 1..Len(grants.items) |->
       <<grants.items[i][1],
         IF to_ranks <= 0 /\ from_ranks > 0
           THEN -grants.items[i][2] ELSE grants.items[i][2]>>]

\* Fault model: _gather_discounts that never negates.
gather_discounts_unsigned(discounts, from_ranks, to_ranks) ==
  IF IsFalsy(discounts) THEN << >>
  ELSE
    [i \in 1..Len(discounts.items) |->
       <<discounts.items[i][1], discounts.items[i][2]>>]

gather_discounts(discounts, from_ranks, to_ranks) ==
  IF IsFalsy(discounts) THEN << >>
  ELSE
    [i \in 1..Len(discounts.items) |->
       <<discounts.items[i][1],
         IF to_ranks <= 0 THEN -discounts.items[i][2] ELSE discounts.items[i][2]>>]

\* dict(pairs): the keys in order of first insertion ...
RECURSIVE DictKeys(_)
DictKeys(pairs) ==
  IF pairs = << >> THEN << >>
  ELSE LET init == DictKeys(SubSeq(pairs, 1, Len(pairs) - 1))
           k == pairs[Len(pairs)][1]
       IN IF \E i \in 1..Len(init) : init[i] = k THEN init ELSE Append(init, k)

\* ... and dict.get(k): the value of the last pair with that key (0 if none).
DictGet(pairs, k) ==
  LET idx == {i \in 1..Len(pairs) : pairs[i][1] = k}
  IN IF idx = {} THEN 0
     ELSE pairs[CHOOSE i \in idx : \A j \in idx : j <= i][2]

SeqToSet(seq) == {seq[i] : i \in 1..Len(seq)}

Reverse(seq) == [i \in 1..Len(seq) |-> seq[Len(seq) + 1 - i]]

\* for id in all_keys: the ids of a set, in the order the interpreter yields them
set_order(keys, seed) == IF seed = "forward" THEN keys ELSE Reverse(keys)

\* props = {id: PropagationData(source, target=id, grants=..., discount=...)}
\* built from dict(grants) and dict(discounts)
PropagationData(grants, discounts, seed) ==
  LET data(all_keys) ==
        [i \in 1..Len(all_keys) |->
           [id |-> all_keys[i],
            grants |-> DictGet(grants, all_keys[i]),
            discount |-> DictGet(discounts, all_keys[i])]]
      merge(gkeys) ==
        data(set_order(gkeys \o SelectSeq(DictKeys(discounts),
                                          LAMBDA k : k \notin SeqToSet(gkeys)),
                       seed))
  IN merge(DictKeys(grants))

\* Fault model: _gather_propagation without the zero-boundary test.
gather_propagation_every_change(f, from_ranks, to_ranks, seed) ==
  IF from_ranks = to_ranks THEN << >>
  ELSE PropagationData(gather_grants(GrantsDecl(f), from_ranks, to_ranks),
                       gather_discounts(DiscountsDecl(f), from_ranks, to_ranks),
                       seed)

\* Fault model: _gather_propagation without the from_ranks == to_ranks test.
gather_propagation_unchanged(f, from_ranks, to_ranks, seed) ==
  IF ~(from_ranks = 0 \/ to_ranks = 0) THEN << >>
  ELSE PropagationData(gather_grants(GrantsDecl(f), from_ranks, to_ranks),
                       gather_discounts(DiscountsDecl(f), from_ranks, to_ranks),
                       seed)

gather_propagation(f, from_ranks, to_ranks, seed) ==
  IF ~(from_ranks = 0 \/ to_ranks = 0) \/ from_ranks = to_ranks THEN << >>
  ELSE PropagationData(gather_grants(GrantsDecl(f), from_ranks, to_ranks),
                       gather_discounts(DiscountsDecl(f), from_ranks, to_ranks),
                       seed)

\* character._controller_for_property(id) finds a controller
HasController(id) == id \in Features \/ id \in Attributes

\* Fault model: effective ranks without the max_ranks cap.
effective_ranks_uncapped(s, f) == s.granted[f] + s.purchased[f]

\* Fault model: propagate() that stores the grant and does not reconcile.
propagate_stale(s, id, data) ==
  IF id \in Attributes THEN
    [s EXCEPT !.attr[id] = @ + data.grants]
  ELSE
    [s EXCEPT !.granted[id] = @ + data.grants,
              !.discount[id] = @ + data.discount]

\* min(self.granted_ranks + self.purchased_ranks, self.max_ranks)
effective_ranks(s, f) == Min(s.granted[f] + s.purchased[f], max_ranks(f))

RECURSIVE reconcile(_, _), propagate(_, _, _), perform_propagation(_, _, _)

reconcile(s, f) ==
  LET previous_ranks == IF f \in s.linked THEN s.eff[f] ELSE 0
      effective == effective_ranks(s, f)
      link_and_send(sent) ==
        perform_propagation(
          [s EXCEPT !.eff[f] = effective,
                    !.linked = @ \cup {f},
                    !.trace = Append(@, [f |-> f, from |-> previous_ranks,
                                         to |-> effective, sent |-> sent,
                                         activation |-> s.sentOnActivation[f]]),
                    !.sentOnActivation[f] =
                       IF previous_ranks = 0 /\ effective > 0 THEN SeqToSet(sent)
                       ELSE IF effective = 0 THEN {} ELSE @],
          sent, 1)
  IN link_and_send(SelectSeq(gather_propagation(f, previous_ranks, effective,
                                                s.hash_seed),
                             LAMBDA p : HasController(p.id)))

perform_propagation(s, props, i) ==
  IF i > Len(props) \/ s.overflow THEN s
  ELSE perform_propagation(propagate(s, props[i].id, props[i]), props, i + 1)

propagate(s, id, data) ==
  IF id \in Attributes THEN
    [s EXCEPT !.attr[id] = @ + data.grants]
  ELSE IF data.grants = 0 /\ data.discount = 0 THEN s
  ELSE IF s.depth >= RecursionLimit THEN [s EXCEPT !.overflow = TRUE]
  ELSE
    [reconcile([s EXCEPT !.granted[id] = @ + data.grants,
                         !.discount[id] = @ + data.discount,
                         !.depth = @ + 1], id)
       EXCEPT !.depth = s.depth]

\* FeatureController.value: reconciles a controller that has no effective
\* ranks yet, then reports them.
touch(s, f) == IF f \in s.linked THEN s ELSE reconcile(s, f)
value(s, f) == touch(s, f).eff[f]

(***************************************************************************)
(* Attributes and requirements                                             *)
(***************************************************************************)
\* sum(fn[x] for x in S)
RECURSIVE SumOver(_, _)
SumOver(S, fn) ==
  IF S = {} THEN 0
  ELSE LET x == CHOOSE y \in S : TRUE IN fn[x] + SumOver(S \ {x}, fn)

\* A cost definition: an int, or a CostByRank table of (rank, cost) rows in
\* increasing order of rank.
IntCost(cp) == [kind |-> "int", cp |-> cp]
CostByRank(table) == [kind |-> "by_rank", table |-> table]

\* Floor search: the value of the row with the greatest key <= key.
RECURSIVE table_lookup(_, _)
table_lookup(table, key) ==
  IF Len(table) = 1 \/ table[2][1] > key THEN table[1][2]
  ELSE table_lookup(Tail(table), key)

\* CostByRank.total_cost(ranks, discount): each rank at its table cost less
\* the discount, and never below 1.
RECURSIVE total_cost(_, _, _)
total_cost(table, n, discount_) ==
  IF n <= 0 THEN 0
  ELSE total_cost(table, n - 1, discount_)
         + Max(table_lookup(table, n) - discount_, 1)

\* Fault model: cost_for that takes the discount off the total.
cost_for_ranks_discount_once(cd, discount_, n) ==
  IF cd.kind = "int" THEN Max(cd.cp * n - discount_, n)
  ELSE total_cost(cd.table, n, discount_)

\* CostsCharacterPointsController.cost_for, on the numbers it reads
cost_for_ranks(cd, discount_, n) ==
  IF cd.kind = "int" THEN Max(cd.cp - discount_, 1) * n
  ELSE total_cost(cd.table, n, discount_)

\* CostsCharacterPointsController.cost_for
cost_for(s, f, n) == cost_for_ranks(IntCost(cost_def(f)), s.discount[f], n)

cp_cost(s, f) == cost_for(s, f, paid_ranks(s, f))

\* CharacterPointController.spent_cp: the skills registered on the character
spent_cp(s) ==
  SumOver(s.linked \cap Skills, [f \in Skills |-> cp_cost(s, f)])

base_cp == cp_baseline + cp_per_level * xp_level

\* CharacterPointController.value
cp_value(s) == s.awarded_cp + base_cp + s.attr["cp"] - spent_cp(s)

\* SumAttribute("level", character, "class").value
level_value(s) ==
  s.attr["level"] + SumOver(s.linked \cap Classes, s.eff)

levels_available(s) == xp_level - level_value(s)

\* character.get_prop(expr): the value, and the character after the read
get_prop(s, prop) ==
  IF prop \in Features THEN
    LET read(s1) == [v |-> s1.eff[prop], s |-> s1] IN read(touch(s, prop))
  ELSE IF prop = "cp" THEN [v |-> cp_value(s), s |-> s]
  ELSE IF prop = "level" THEN [v |-> level_value(s), s |-> s]
  ELSE IF prop \in Attributes THEN [v |-> s.attr[prop], s |-> s]
  ELSE [v |-> 0, s |-> s]

\* CharacterController.meets_requirements: every requirement is evaluated
RECURSIVE meets_requirements(_, _)
meets_requirements(s, reqs) ==
  IF reqs = << >> THEN [ok |-> TRUE, s |-> s]
  ELSE
    LET both(met, rest) == [ok |-> met /\ rest.ok, s |-> rest.s]
        after(r) == both(r.v >= Head(reqs).value,
                         meets_requirements(r.s, Tail(reqs)))
    IN after(get_prop(s, Head(reqs).prop))

(***************************************************************************)
(* Decisions                                                               *)
(***************************************************************************)
Decision(success, reason, amount) ==
  [success |-> success, reason |-> reason, amount |-> amount]
NoAmount == << >>
SUCCESS == Decision(TRUE, "", NoAmount)
MUST_BE_POSITIVE == Decision(FALSE, "Value must be positive.", NoAmount)
NOT_IMPLEMENTED == Decision(FALSE, "Purchase not implemented", NoAmount)

(***************************************************************************)
(* Guards                                                                  *)
(***************************************************************************)
\* Fault model: can_increase that does not compare the ranks with the cap.
base_can_increase_uncapped(s, f, n) ==
  IF n <= 0 THEN [rd |-> MUST_BE_POSITIVE, s |-> s]
  ELSE
    LET required(m) ==
          IF ~m.ok THEN
            [rd |-> Decision(FALSE, "Not all requirements are met.", NoAmount),
             s |-> m.s]
          ELSE [rd |-> SUCCESS, s |-> m.s]
        valued(s1) == required(meets_requirements(s1, requires(f)))
    IN valued(touch(s, f))

\* FeatureController.can_increase
base_can_increase(s, f, n) ==
  IF n <= 0 THEN [rd |-> MUST_BE_POSITIVE, s |-> s]
  ELSE
    LET required(m) ==
          IF ~m.ok THEN
            [rd |-> Decision(FALSE, "Not all requirements are met.", NoAmount),
             s |-> m.s]
          ELSE [rd |-> SUCCESS, s |-> m.s]
        ranked(s1, current) ==
          IF current >= ranks(f) THEN
            [rd |-> Decision(FALSE, "", NoAmount), s |-> s1]
          ELSE IF current + n > ranks(f) THEN
            [rd |-> Decision(FALSE, "Max ranks", <<ranks(f) - current>>), s |-> s1]
          ELSE required(meets_requirements(s1, requires(f)))
        valued(s1) == ranked(s1, s1.eff[f])
    IN valued(touch(s, f))

\* Fault model: can_decrease without the test against purchased_ranks.
base_can_decrease_unchecked(s, f, n) ==
  IF n < 1 THEN MUST_BE_POSITIVE ELSE SUCCESS

\* FeatureController.can_decrease (character.can_respend is always true)
base_can_decrease(s, f, n) ==
  IF n < 1 THEN MUST_BE_POSITIVE
  ELSE IF n > s.purchased[f] THEN
    Decision(FALSE, "Can't sell back", <<n - s.purchased[f]>>)
  ELSE SUCCESS

\* The while loop of max_rank_increase: the rank counts from available_ranks
\* down to 1, the first whose cost from the current cost fits the budget.
RECURSIVE search_ranks(_, _, _, _, _)
search_ranks(cd, discount_, paid, available_ranks, available_cp) ==
  IF available_ranks <= 0 THEN 0
  ELSE IF cost_for_ranks(cd, discount_, paid + available_ranks)
            - cost_for_ranks(cd, discount_, paid) <= available_cp
    THEN available_ranks
  ELSE search_ranks(cd, discount_, paid, available_ranks - 1, available_cp)

\* Fault model: max_rank_increase that asks for CP to be left over.
RECURSIVE max_rank_increase_from_strict(_, _, _, _, _)
max_rank_increase_from_strict(cd, discount_, paid, available_ranks, available_cp) ==
  IF available_ranks < 1 THEN 0
  ELSE IF cost_for_ranks(cd, discount_, paid + available_ranks)
            - cost_for_ranks(cd, discount_, paid) < available_cp
    THEN available_ranks
  ELSE max_rank_increase_from_strict(cd, discount_, paid, available_ranks - 1,
                                     available_cp)

\* CostsCharacterPointsController.max_rank_increase, on the numbers it reads
max_rank_increase_from(cd, discount_, paid, available_ranks, available_cp) ==
  IF available_ranks < 1 THEN 0
  ELSE IF cd.kind = "int" THEN Min(available_ranks, available_cp \div cd.cp)
  ELSE search_ranks(cd, discount_, paid, available_ranks, available_cp)

\* CostsCharacterPointsController.max_rank_increase
max_rank_increase(s, f, available_cp) ==
  max_rank_increase_from(IntCost(cost_def(f)), s.discount[f], paid_ranks(s, f),
                         max_ranks(f) - s.eff[f],
                         IF available_cp < 0 THEN cp_value(s) ELSE available_cp)

\* Fault model: can_increase that does not look at the character's CP.
costs_can_increase_free(s, f, n) == base_can_increase(s, f, n)

\* CostsCharacterPointsController.can_increase
costs_can_increase(s, f, n) ==
  LET afford(b, current_cp, cp_delta) ==
        IF current_cp < cp_delta THEN
          [rd |-> Decision(FALSE, "Need CP",
                           <<max_rank_increase(b.s, f, current_cp)>>),
           s |-> b.s]
        ELSE [rd |-> SUCCESS, s |-> b.s]
      checked(b) ==
        IF ~b.rd.success THEN b
        ELSE afford(b, cp_value(b.s),
                    cost_for(b.s, f, paid_ranks(b.s, f) + n) - cp_cost(b.s, f))
  IN checked(base_can_increase(s, f, n))

\* ClassController.can_increase
class_can_increase(s, f, n) ==
  LET levelled(b, available) ==
        [rd |-> Decision(available >= n, "", <<available>>), s |-> b.s]
      checked(b) ==
        IF ~b.rd.success THEN b
        ELSE levelled(b, Min(levels_available(b.s), max_ranks(f) - b.s.eff[f]))
  IN checked(base_can_increase(s, f, n))

\* ClassController.can_decrease
class_can_decrease(s, f, n) ==
  LET b == base_can_decrease(s, f, n)
      current == s.purchased[f]
  IN IF ~b.success THEN b
     ELSE IF /\ s.starting_class = f
             /\ Cardinality(s.model_keys \cap Classes) > 1
             /\ current - n < 2
       THEN Decision(FALSE, "Can't reduce starting class", <<current - 2>>)
     ELSE Decision(current >= n, "", <<current>>)

can_increase(s, f, n) ==
  IF f \in Classes THEN class_can_increase(s, f, n) ELSE costs_can_increase(s, f, n)

can_decrease(s, f, n) ==
  IF f \in Classes THEN class_can_decrease(s, f, n) ELSE base_can_decrease(s, f, n)

(***************************************************************************)
(* Mutators                                                                *)
(***************************************************************************)
\* max(model.classes.values(), default=0)
max_class_ranks(s) ==
  LET held == s.model_keys \cap Classes
  IN IF held = {} THEN 0
     ELSE s.purchased[CHOOSE c \in held : \A d \in held : s.purchased[d] <= s.purchased[c]]

\* Decision(success=True, amount=self.value) after the final reconcile()
Reconciled(s, f) == [rd |-> Decision(TRUE, "", <<s.eff[f]>>), s |-> s]

\* Fault model: increase() that writes the ranks whatever the guard decided.
costs_increase_unchecked(s, f, n) ==
  LET apply(g) ==
        [rd |-> g.rd,
         s |-> reconcile([g.s EXCEPT !.purchased[f] = @ + n,
                                     !.model_keys = @ \cup {f}], f)]
  IN apply(can_increase(s, f, n))

\* CostsCharacterPointsController.increase
costs_increase(s, f, n) ==
  LET apply(g) ==
        IF ~g.rd.success THEN g
        ELSE Reconciled(reconcile([g.s EXCEPT !.purchased[f] = @ + n,
                                              !.model_keys = @ \cup {f}], f), f)
  IN apply(can_increase(s, f, n))

\* CostsCharacterPointsController.decrease
costs_decrease(s, f, n) ==
  LET rd == can_decrease(s, f, n)
  IN IF ~rd.success THEN [rd |-> rd, s |-> s]
     ELSE [rd |-> SUCCESS,
           s |-> reconcile([s EXCEPT !.purchased[f] = @ - n,
                                     !.model_keys = @ \cup {f}], f)]

\* ClassController.increase
class_increase(s, f, requested) ==
  LET n == IF level_value(s) = 0 /\ requested < 2 THEN 2 ELSE requested
      store(g, new_value) ==
        Reconciled(
          reconcile([g.s EXCEPT
                       !.primary_class =
                          IF @ # f /\ max_class_ranks(g.s) < new_value THEN f ELSE @,
                       !.purchased[f] = new_value,
                       !.model_keys = @ \cup {f},
                       !.starting_class = IF @ = "none" THEN f ELSE @], f), f)
      apply(g) ==
        IF ~g.rd.success THEN g ELSE store(g, g.s.eff[f] + n)
  IN apply(can_increase(s, f, n))

\* ClassController.decrease
class_decrease(s, f, n) ==
  IF n <= 0 THEN [rd |-> MUST_BE_POSITIVE, s |-> s]
  ELSE
    LET rd == can_decrease(s, f, n)
    IN IF ~rd.success THEN [rd |-> rd, s |-> s]
       ELSE
         LET current == s.purchased[f]
             reduced == current - n
             new_value == IF f = s.starting_class /\ reduced < 2 THEN 0 ELSE reduced
             s1 == [s EXCEPT
                      !.purchased[f] = new_value,
                      !.model_keys = IF new_value > 0 THEN @ \cup {f} ELSE @ \ {f}]
             s2 == [s1 EXCEPT
                      !.primary_class =
                         IF @ = f /\ max_class_ranks(s1) < new_value THEN "none" ELSE @]
             s3 == IF s2.model_keys \cap Classes = {}
                     THEN [s2 EXCEPT !.primary_class = "none",
                                     !.starting_class = "none"]
                     ELSE s2
         IN Reconciled(reconcile(s3, f), f)

increase(s, f, n) ==
  IF f \in Classes THEN class_increase(s, f, n) ELSE costs_increase(s, f, n)

decrease(s, f, n) ==
  IF f \in Classes THEN class_decrease(s, f, n) ELSE costs_decrease(s, f, n)

(***************************************************************************)
(* TempestCharacter                                                        *)
(***************************************************************************)
\* TempestCharacter._controller_for_feature: None for an id with no definition
controller_for_feature(id) == id \in Features

\* Fault model: purchase that hands every delta, as written, to increase().
purchase_unsigned(s, f, n) ==
  IF controller_for_feature(f) /\ n # 0 THEN increase(s, f, n)
  ELSE [rd |-> NOT_IMPLEMENTED, s |-> s]

\* TempestCharacter.purchase: dispatch on the sign of the rank delta
purchase(s, f, n) ==
  IF controller_for_feature(f) /\ n > 0 THEN increase(s, f, n)
  ELSE IF controller_for_feature(f) /\ n < 0 THEN decrease(s, f, -n)
  ELSE [rd |-> NOT_IMPLEMENTED, s |-> s]

\* Fault model: can_purchase that performs the purchase it is asked about.
can_purchase_committing(s, f, n) == purchase(s, f, n)

\* TempestCharacter.can_purchase
can_purchase(s, f, n) ==
  IF controller_for_feature(f) /\ n > 0 THEN can_increase(s, f, n)
  ELSE IF controller_for_feature(f) /\ n < 0 THEN
    [rd |-> can_decrease(s, f, -n), s |-> s]
  ELSE [rd |-> NOT_IMPLEMENTED, s |-> s]

RECURSIVE Perms(_)
Perms(S) ==
  IF S = {} THEN { << >> }
  ELSE UNION { { <<x>> \o p : p \in Perms(S \ {x}) } : x \in S }

RECURSIVE reconcile_all(_, _)
reconcile_all(s, order) ==
  IF order = << >> \/ s.overflow THEN s
  ELSE reconcile_all(reconcile(s, Head(order)), Tail(order))

\* Fault model: a load that builds fresh controllers and reconciles none.
load_character_lazy(s, order) ==
  [s EXCEPT !.linked = {},
            !.eff = [f \in Features |-> 0],
            !.granted = [f \in Features |-> 0],
            !.discount = [f \in Features |-> 0],
            !.attr = [a \in Attributes |-> 0],
            !.sentOnActivation = [f \in Features |-> {}]]

\* Engine.load_character on the dumped model, then TempestCharacter.clear_caches:
\* fresh controllers for the persisted ids, each reconciled in the order of the
\* model's entries.
load_character(s, order) ==
  LET fresh == [s EXCEPT !.linked = {},
                         !.eff = [f \in Features |-> 0],
                         !.granted = [f \in Features |-> 0],
                         !.discount = [f \in Features |-> 0],
                         !.attr = [a \in Attributes |-> 0],
                         !.sentOnActivation = [f \in Features |-> {}]]
  IN reconcile_all(fresh, order)

(***************************************************************************)
(* Specification                                                           *)
(***************************************************************************)
\* The propagate() calls of a trace: sender, target and PropagationData.
RECURSIVE Sends(_)
Sends(tr) ==
  IF tr = << >> THEN << >>
  ELSE [i \in 1..Len(Head(tr).sent) |->
          [from |-> Head(tr).f, to |-> Head(tr).sent[i].id,
           grants |-> Head(tr).sent[i].grants,
           discount |-> Head(tr).sent[i].discount]] \o Sends(Tail(tr))

\* The operation last performed and the success of the Decision it returned.
Op(kind, rd) == [op |-> kind, success |-> rd.success]

Commit(r, kind) ==
  LET s == r.s
      op == Op(kind, r.rd)
  IN
  /\ purchased' = s.purchased
  /\ model_keys' = s.model_keys
  /\ primary_class' = s.primary_class
  /\ starting_class' = s.starting_class
  /\ awarded_cp' = s.awarded_cp
  /\ linked' = s.linked
  /\ eff' = s.eff
  /\ granted' = s.granted
  /\ discount' = s.discount
  /\ attr' = s.attr
  /\ sent_log' = SeqToSet(Sends(s.trace))
  /\ overflow' = s.overflow
  /\ sentOnActivation' = s.sentOnActivation
  /\ lastOp' = op
  /\ costing' = costing
  /\ agg' = agg
  /\ req' = req
  /\ sheet' = sheet
  /\ opts' = opts
  /\ ruleset' = ruleset
  /\ xp_level' = xp_level

\* No feature is being priced.
NoCosting == [op |-> "none"]

\* engine.new_character(), with the CP awarded by fiat
new_character_model ==
  /\ purchased = [f \in Features |-> 0]
  /\ model_keys = {}
  /\ primary_class = "none"
  /\ starting_class = "none"
  /\ awarded_cp \in {0, MaxAward}
  /\ linked = {}
  /\ eff = [f \in Features |-> 0]
  /\ granted = [f \in Features |-> 0]
  /\ discount = [f \in Features |-> 0]
  /\ attr = [a \in Attributes |-> 0]
  /\ sent_log = {}
  /\ overflow = FALSE
  /\ sentOnActivation = [f \in Features |-> {}]
  /\ lastOp = Op("new", SUCCESS)
  /\ undo = << >>

\* A new character of the example ruleset
new_character == new_character_model /\ ruleset = "example" /\ xp_level = XpLevel

\* No aggregator is in use.
NoAggregator == [last |-> [op |-> "none"]]
NoRequirement == [op |-> "none"]
NoSheet == [last |-> [op |-> "none"]]
NoOptions == [last |-> [op |-> "none"]]

Init ==
  new_character /\ costing = NoCosting /\ agg = NoAggregator /\ req = NoRequirement /\ sheet = NoSheet /\ opts = NoOptions

Deltas == (-MaxDelta)..MaxDelta

\* character.purchase("f:n")
Purchase(f, n) ==
  /\ \E seed \in HashSeeds : Commit(purchase(Cur(seed), f, n), "purchase")
  /\ UNCHANGED undo

\* character.can_purchase("f:n")
CanPurchase(f, n) ==
  /\ \E seed \in HashSeeds :
       Commit(can_purchase(Cur(seed), f, n), "can_purchase")
  /\ UNCHANGED undo

\* controller.reconcile() called on the controller of f
Reconcile(f) ==
  /\ \E seed \in HashSeeds :
       Commit([rd |-> SUCCESS, s |-> reconcile(Cur(seed), f)], "reconcile")
  /\ UNCHANGED undo

\* The entries of the persisted model that hold ranks may come in any order;
\* entries with no ranks reconcile to nothing wherever they stand.
LoadOrders ==
  LET held == {f \in model_keys : purchased[f] > 0}
      rest == CHOOSE p \in Perms(model_keys \ held) : TRUE
  IN { p \o rest : p \in Perms(held) }

\* engine.load_character(character.dump_dict()) and reconcile of every feature
LoadCharacter ==
  /\ \E order \in LoadOrders, seed \in HashSeeds :
       Commit([rd |-> SUCCESS, s |-> load_character(Cur(seed), order)], "load")
  /\ UNCHANGED undo

Next ==
  \/ \E f \in FeatureIds, n \in Deltas : Purchase(f, n)
  \/ \E f \in FeatureIds, n \in Deltas : CanPurchase(f, n)
  \/ \E f \in Features : Reconcile(f)
  \/ LoadCharacter

Spec == Init /\ [][Next]_vars

(***************************************************************************)
(* A character of a ruleset whose grants close a cycle. An operation that  *)
(* runs into the recursion limit ends the session.                         *)
(***************************************************************************)
CycleInit ==
  /\ new_character_model /\ ruleset = "cyclic" /\ xp_level = XpLevel
  /\ costing = NoCosting /\ agg = NoAggregator /\ req = NoRequirement
  /\ sheet = NoSheet /\ opts = NoOptions

CycleNext == ~overflow /\ \E f \in Features, n \in 1..MaxDelta : Purchase(f, n)

SpecCycle == CycleInit /\ [][CycleNext]_vars

(***************************************************************************)
(* Characters built by purchases alone, with the guards probed in between  *)
(***************************************************************************)
PurchaseNext ==
  \/ \E f \in FeatureIds, n \in Deltas : Purchase(f, n)
  \/ \E f \in FeatureIds, n \in Deltas : CanPurchase(f, n)

SpecPurchases == Init /\ [][PurchaseNext]_vars

(***************************************************************************)
(* Characters of every level up to the one under test, built by purchases  *)
(* and sellbacks (the new character of the example's fixture has level 2), *)
(* under the example ruleset and under one with a discount by rank.        *)
(***************************************************************************)
BudgetInit ==
  /\ new_character_model /\ ruleset \in {"example", "rank-discounts"}
  /\ xp_level \in 1..XpLevel
  /\ costing = NoCosting /\ agg = NoAggregator /\ req = NoRequirement
  /\ sheet = NoSheet /\ opts = NoOptions

BudgetNext == \E f \in Features, n \in Deltas : Purchase(f, n)

SpecBudget == BudgetInit /\ [][BudgetNext]_vars

\* The requirement lists a caller may ask about: those of the feature
\* definitions, and one rank of any feature or attribute.
RequirementLists ==
  {requires(f) : f \in Features}
    \cup {<<[prop |-> p, value |-> 1]>> : p \in Features \cup Attributes}

\* character.meets_requirements(requirements)
MeetsRequirements(reqs) ==
  /\ \E seed \in HashSeeds :
       \E r \in {meets_requirements(Cur(seed), reqs)} :
         Commit([rd |-> IF r.ok THEN SUCCESS
                        ELSE Decision(FALSE, "Not all requirements are met.", NoAmount),
                 s |-> r.s],
                "meets_requirements")
  /\ UNCHANGED undo

EvaluationNext ==
  \/ \E f \in Features, n \in Deltas : Purchase(f, n)
  \/ \E reqs \in RequirementLists : MeetsRequirements(reqs)

SpecEvaluation == Init /\ [][EvaluationNext]_vars

(***************************************************************************)
(* Increases that are sold back in reverse order                           *)
(***************************************************************************)
\* character.purchase("f:n") succeeding, remembered with the grants held before
Increase(f, n) ==
  /\ Len(undo) < MaxUndo
  /\ \E seed \in HashSeeds :
       \E r \in {purchase(Cur(seed), f, n)} :
         r.rd.success /\ Commit(r, "purchase")
  /\ undo' = Append(undo, [f |-> f, n |-> n, granted |-> granted, attr |-> attr])

\* character.purchase("f:-n") for the latest increase not yet sold back
Sellback ==
  /\ undo # << >>
  /\ \E seed \in HashSeeds :
       \E r \in {purchase(Cur(seed), undo[Len(undo)].f, -undo[Len(undo)].n)} :
         r.rd.success /\ Commit(r, "purchase")
  /\ undo' = SubSeq(undo, 1, Len(undo) - 1)

SellbackNext ==
  \/ \E f \in Features, n \in 1..MaxDelta : Increase(f, n)
  \/ Sellback

SpecSellback == Init /\ [][SellbackNext]_vars

(***************************************************************************)
(* Pricing of one feature: cost_for and max_rank_increase on every cost    *)
(* definition, rank cap, granted and purchased ranks, discount and budget  *)
(***************************************************************************)
\* varying-cost-perk of the example ruleset: 1 per rank for ranks 1-2, 2 for
\* ranks 3-4, 3 from rank 5.
VaryingCost == CostByRank(<< <<1, 1>>, <<3, 2>>, <<5, 3>> >>)

CostDefs ==
  {IntCost(cost_def(f)) : f \in Skills}
    \cup {VaryingCost, CostByRank(<< <<1, 2>>, <<2, 3>> >>)}

\* A controller with a cost definition, before anything is asked of it.
Priced ==
  {c \in [cd : CostDefs, cap : 1..MaxCostRanks, granted : 0..MaxGranted,
          purchased : 0..MaxCostRanks, discount : 0..MaxDiscount,
          budget : 0..MaxBudget, op : {"new"}, n : {0}, result : {0}] :
     c.purchased <= c.cap}

CostsInit ==
  /\ new_character /\ awarded_cp = 0 /\ costing \in Priced
  /\ agg = NoAggregator /\ req = NoRequirement /\ sheet = NoSheet /\ opts = NoOptions

CharacterUnchanged ==
  UNCHANGED <<purchased, model_keys, primary_class, starting_class, awarded_cp,
              linked, eff, granted, discount, attr, sent_log, overflow, lastOp,
              sentOnActivation, undo, ruleset, xp_level>>

\* controller.cost_for(n)
CostFor(n) ==
  /\ costing.op = "new"
  /\ costing' = [costing EXCEPT
                   !.op = "cost_for", !.n = n,
                   !.result = cost_for_ranks(costing.cd, costing.discount, n)]
  /\ CharacterUnchanged
  /\ UNCHANGED <<agg, req, sheet, opts>>

\* controller.max_rank_increase(budget)
MaxRankIncrease ==
  /\ costing.op = "new"
  /\ costing' = [costing EXCEPT
                   !.op = "max_rank_increase",
                   !.result =
                      max_rank_increase_from(
                        costing.cd, costing.discount,
                        paid_ranks_of(costing.purchased, costing.granted, costing.cap),
                        costing.cap - Min(costing.granted + costing.purchased,
                                          costing.cap),
                        costing.budget)]
  /\ CharacterUnchanged
  /\ UNCHANGED <<agg, req, sheet, opts>>

CostsNext ==
  \/ \E n \in 0..MaxCostRanks : CostFor(n)
  \/ MaxRankIncrease

SpecCosts == CostsInit /\ [][CostsNext]_vars

(***************************************************************************)
(* Aggregator: properties with modifier lists and cached evaluations       *)
(***************************************************************************)
\* The properties of the class example, in the order of define_property: the
\* tag property "level" and the class "fighter" that carries the tag.
PropOrder == <<"level", "fighter">>
Props == SeqToSet(PropOrder)
is_tag(p) == p = "level"
tags(p) == IF p = "fighter" THEN {"level"} ELSE {}
base == 0
min_value == 0

\* Property(id, type, ...) with the defaults of the dataclass; an optional int
\* is a sequence of at most one element.
Property(id, is_tag_, tags_) ==
  [id |-> id, base |-> base, min_value |-> <<min_value>>, max_value |-> << >>,
   min_max_each |-> FALSE, coalesce |-> TRUE, is_tag |-> is_tag_, tags |-> tags_]

NoCache == [valid |-> FALSE, rounded |-> 0, max |-> 0]

\* Aggregator(): no property is defined
EmptyAggregator ==
  [order |-> << >>, defs |-> << >>, mods |-> << >>, cache |-> << >>,
   last |-> [op |-> "new", prop |-> "", value |-> 0]]

has_property(a, id) == id \in DOMAIN a.defs

\* Fault model: define_property that replaces a property already defined.
define_property_overwrite(a, prop) ==
  [order |-> IF has_property(a, prop.id) THEN a.order ELSE Append(a.order, prop.id),
   defs |-> (prop.id :> prop) @@ a.defs,
   mods |-> (prop.id :> << >>) @@ a.mods,
   cache |-> (prop.id :> NoCache) @@ a.cache,
   last |-> [op |-> IF has_property(a, prop.id) THEN "ValueError"
                    ELSE "define_property",
             prop |-> prop.id, value |-> 0]]

\* Aggregator.define_property; a ValueError raised is recorded as the last call
define_property(a, prop) ==
  IF has_property(a, prop.id) THEN
    [a EXCEPT !.last = [op |-> "ValueError", prop |-> prop.id, value |-> 0]]
  ELSE
    [order |-> Append(a.order, prop.id),
     defs |-> (prop.id :> prop) @@ a.defs,
     mods |-> (prop.id :> << >>) @@ a.mods,
     cache |-> (prop.id :> NoCache) @@ a.cache,
     last |-> [op |-> "define_property", prop |-> prop.id, value |-> 0]]

RECURSIVE define_all(_, _)
define_all(a, props) ==
  IF props = << >> THEN a
  ELSE define_all(define_property(a, Head(props)), Tail(props))

\* Repair model: add_mod that also clears the caches of the properties named by
\* the tags of the property it modifies.
clear_caches_tagged(a, p) ==
  [a EXCEPT !.cache = [q \in DOMAIN a.cache |->
                         IF q = p \/ q \in a.defs[p].tags THEN NoCache ELSE @[q]]]

\* Property.clear_caches
clear_caches(a, p) == [a EXCEPT !.cache[p] = NoCache]

\* Fault model: coalescing that keeps the value of the later modifier.
RECURSIVE coalesce_replace(_, _)
coalesce_replace(mods, modifier) ==
  IF mods = << >> THEN <<modifier>>
  ELSE IF Head(mods).source = modifier.source THEN
    <<modifier>> \o Tail(mods)
  ELSE <<Head(mods)>> \o coalesce_replace(Tail(mods), modifier)

\* Modifier.coalesce over the list: the first modifier of the same source
\* takes the value, and a modifier no other matches is appended.
RECURSIVE coalesce(_, _)
coalesce(mods, modifier) ==
  IF mods = << >> THEN <<modifier>>
  ELSE IF Head(mods).source = modifier.source THEN
    <<[Head(mods) EXCEPT !.value = @ + modifier.value]>> \o Tail(mods)
  ELSE <<Head(mods)>> \o coalesce(Tail(mods), modifier)

\* Property.add_mod
add_mod(a, p, source, value_) ==
  [clear_caches(a, p) EXCEPT
     !.mods[p] = IF a.defs[p].coalesce
                   THEN coalesce(@, [source |-> source, value |-> value_])
                   ELSE Append(@, [source |-> source, value |-> value_])]

\* The modifiers a property evaluates: its own and, for a tag property, those
\* of every property that carries the tag, in the order of _props.
RECURSIVE tagged_modifiers(_, _, _)
tagged_modifiers(a, p, i) ==
  IF i > Len(a.order) THEN << >>
  ELSE (IF p \in a.defs[a.order[i]].tags THEN a.mods[a.order[i]] ELSE << >>)
         \o tagged_modifiers(a, p, i + 1)

modifiers_of(a, p) ==
  IF a.defs[p].is_tag THEN a.mods[p] \o tagged_modifiers(a, p, 1) ELSE a.mods[p]

RECURSIVE SumValues(_, _)
SumValues(mods, sources) ==
  IF mods = << >> THEN 0
  ELSE (IF Head(mods).source \in sources THEN Head(mods).value ELSE 0)
         + SumValues(Tail(mods), sources)

\* Property._force_range
_force_range(prop, v) ==
  IF prop.min_value # << >> /\ v < prop.min_value[1] THEN
    (IF prop.max_value # << >> /\ prop.min_value[1] > prop.max_value[1]
       THEN prop.max_value[1] ELSE prop.min_value[1])
  ELSE IF prop.max_value # << >> /\ v > prop.max_value[1] THEN prop.max_value[1]
  ELSE v

\* The loop of evaluate_float over the modifiers, from the value so far
RECURSIVE add_values(_, _, _)
add_values(prop, mods, v) ==
  IF mods = << >> THEN v
  ELSE add_values(prop, Tail(mods),
                  IF prop.min_max_each THEN _force_range(prop, v + Head(mods).value)
                  ELSE v + Head(mods).value)

\* Fault model: evaluation that forces the range once, after the last modifier.
computed_range_once(prop, mods) ==
  LET counted == SelectSeq(mods, LAMBDA m : m.value # 0)
      source_values ==
        {prop.base + SumValues(counted, {m.source}) : m \in SeqToSet(counted)}
  IN [valid |-> TRUE,
      rounded |-> _force_range(prop, prop.base + SumValues(mods, {m.source : m \in SeqToSet(mods)})),
      max |-> IF source_values = {} THEN prop.base
              ELSE CHOOSE v \in source_values : \A w \in source_values : w <= v]

\* Fault model: evaluation whose maximum is the source of largest magnitude.
computed_magnitude(prop, mods) ==
  LET counted == SelectSeq(mods, LAMBDA m : m.value # 0)
      source_values ==
        {prop.base + SumValues(counted, {m.source}) : m \in SeqToSet(counted)}
      Abs(v) == IF v < 0 THEN -v ELSE v
  IN [valid |-> TRUE,
      rounded |-> _force_range(prop, add_values(prop, mods, prop.base)),
      max |-> IF source_values = {} THEN prop.base
              ELSE CHOOSE v \in source_values :
                     \A w \in source_values : Abs(w) <= Abs(v)]

\* Property.evaluate_float, computing from the modifiers; values are integers,
\* which floor() leaves as they are.
computed(prop, mods) ==
  LET counted == SelectSeq(mods, LAMBDA m : m.value # 0)
      source_values ==
        {prop.base + SumValues(counted, {m.source}) : m \in SeqToSet(counted)}
  IN [valid |-> TRUE,
      rounded |-> _force_range(prop, add_values(prop, mods, prop.base)),
      max |-> IF source_values = {} THEN prop.base
              ELSE CHOOSE v \in source_values : \A w \in source_values : w <= v]

\* Property.evaluate_float: the cached value if there is one
evaluate_float(a, p) ==
  IF a.cache[p].valid THEN a
  ELSE [a EXCEPT !.cache[p] = computed(a.defs[p], modifiers_of(a, p))]

\* Aggregator.apply_mod
apply_mod(a, p, value_, source) ==
  [add_mod(a, p, source, value_) EXCEPT
     !.last = [op |-> "apply_mod", prop |-> p, value |-> 0]]

\* Aggregator.get_prop
get_prop_agg(a, p) ==
  LET answered(e) == [e EXCEPT !.last = [op |-> "get_prop", prop |-> p,
                                         value |-> e.cache[p].rounded]]
  IN answered(evaluate_float(a, p))

\* Aggregator.get_prop_max
get_prop_max(a, p) ==
  LET answered(e) == [e EXCEPT !.last = [op |-> "get_prop_max", prop |-> p,
                                         value |-> e.cache[p].max]]
  IN answered(evaluate_float(a, p))

\* Aggregator() with the properties of the class example defined
AggregatorInit ==
  /\ new_character /\ awarded_cp = 0 /\ costing = NoCosting /\ req = NoRequirement /\ sheet = NoSheet /\ opts = NoOptions
  /\ agg = define_all(EmptyAggregator,
                      [i \in 1..Len(PropOrder) |->
                         Property(PropOrder[i], is_tag(PropOrder[i]), tags(PropOrder[i]))])

\* source=None stands for the property's own id; a feature that carries tags
\* also takes modifiers from another source. Modifiers go to the properties of
\* the class example.
ModSources(p) == IF agg.defs[p].tags = {} THEN {p} ELSE {p, "item"}

ApplyMod(p, v, source) ==
  /\ \A m \in SeqToSet(agg.mods[p]) :
        m.source = source =>
          m.value + v \in (-MaxModValue)..MaxModValue
  /\ agg' = apply_mod(agg, p, v, source)
  /\ CharacterUnchanged /\ UNCHANGED <<costing, req, sheet, opts>>

GetProp(p) ==
  /\ agg' = get_prop_agg(agg, p)
  /\ CharacterUnchanged /\ UNCHANGED <<costing, req, sheet, opts>>

GetPropMax(p) ==
  /\ agg' = get_prop_max(agg, p)
  /\ CharacterUnchanged /\ UNCHANGED <<costing, req, sheet, opts>>

\* aggregator.define_property(Property(id, ...)): of a property already
\* defined, or of the attribute "lp"
DefineProperty(id) ==
  /\ agg' = define_property(agg, Property(id, FALSE, {}))
  /\ CharacterUnchanged /\ UNCHANGED <<costing, req, sheet, opts>>

AggregatorNext ==
  \/ \E p \in Props, v \in (-1)..MaxModValue :
       \E source \in ModSources(p) : ApplyMod(p, v, source)
  \/ \E p \in DOMAIN agg.defs : GetProp(p)
  \/ \E p \in DOMAIN agg.defs : GetPropMax(p)
  \/ \E id \in Props \cup {"lp"} : DefineProperty(id)

SpecAggregator == AggregatorInit /\ [][AggregatorNext]_vars

\* ---------------------------------------------------------------------------
\* Property evaluation: an aggregator over one of a few small catalogues, the
\* modifiers drawn from ModValues.

\* A tag property T and two properties that carry the tag
TagCatalogue ==
  <<Property("T", TRUE, {}), Property("A", FALSE, {"T"}), Property("B", FALSE, {"T"})>>

\* One property P with the given coalesce and min_max_each flags
SingleCatalogue(coalesce_, min_max_each_) ==
  <<[Property("P", FALSE, {}) EXCEPT !.coalesce = coalesce_,
                                     !.min_max_each = min_max_each_]>>

PropertyCatalogues ==
  {TagCatalogue} \cup {SingleCatalogue(c, e) : c \in BOOLEAN, e \in BOOLEAN}

ModValues == {-1, 3, 5}

PropertiesInit ==
  /\ new_character /\ awarded_cp = 0 /\ costing = NoCosting /\ req = NoRequirement /\ sheet = NoSheet /\ opts = NoOptions
  /\ \E catalogue \in PropertyCatalogues :
       agg = define_all(EmptyAggregator, catalogue)

\* The sources of the modifiers a property is given: its own id, and for the
\* single property also another source.
PropertySources(p) == IF agg.defs[p].tags = {} THEN {p, "item"} ELSE {p}

\* Property.add_mod(source=..., value=...) on a property that stores modifiers
AddMod(p, source, v) ==
  /\ ~agg.defs[p].is_tag
  /\ IF agg.defs[p].coalesce
       THEN \A m \in SeqToSet(agg.mods[p]) :
              m.source = source => m.value + v \in (-MaxModSum)..MaxModSum
       ELSE Len(agg.mods[p]) < MaxMods
  /\ agg' = [add_mod(agg, p, source, v) EXCEPT
               !.last = [op |-> "add_mod", prop |-> p, value |-> v,
                         source |-> source]]
  /\ CharacterUnchanged /\ UNCHANGED <<costing, req, sheet, opts>>

PropertiesNext ==
  \/ \E p \in DOMAIN agg.defs, v \in ModValues :
       \E source \in PropertySources(p) : AddMod(p, source, v)
  \/ \E p \in DOMAIN agg.defs : GetProp(p)
  \/ \E p \in DOMAIN agg.defs : GetPropMax(p)

SpecProperties == PropertiesInit /\ [][PropertiesNext]_vars

(***************************************************************************)
(* Requirement expressions. A text is a sequence of characters; an         *)
(* optional field is a sequence of at most one element.                    *)
(***************************************************************************)
None == << >>
Some(v) == <<v>>
\* bool(x) of an optional int: neither None nor 0
Truthy(opt) == opt # None /\ opt[1] # 0

Digits == <<"0", "1", "2", "3", "4", "5", "6", "7", "8", "9">>
DigitChars == SeqToSet(Digits)
Letters == {"p", "s", "o"}
\* The characters the classes of _REQ_SYNTAX (base_models) exclude
Reserved == {" ", ".", "@", "+", ":", "$", "<"}
AllChars == Letters \cup DigitChars \cup Reserved \cup {"-", "_", "!", "#", "?"}
\* [^\s.@+:$<] and [a-zA-Z0-9_-], within the characters in use
NameChars == AllChars \ Reserved
WordChars == Letters \cup DigitChars \cup {"_", "-"}

\* str(n) of an int
RECURSIVE str(_)
str(n) ==
  IF n < 0 THEN <<"-">> \o str(-n)
  ELSE IF n < 10 THEN <<Digits[n + 1]>>
  ELSE str(n \div 10) \o <<Digits[(n % 10) + 1]>>

\* The regex -?\d+ and int(text) of a text that matches it
IsNumber(text) ==
  LET digits == IF text # << >> /\ Head(text) = "-" THEN Tail(text) ELSE text
  IN digits # << >> /\ \A i \in 1..Len(digits) : digits[i] \in DigitChars

RECURSIVE int_digits(_, _)
int_digits(text, n) ==
  IF text = << >> THEN n
  ELSE int_digits(Tail(text),
                  10 * n + (CHOOSE d \in 0..9 : Digits[d + 1] = Head(text)))

int(text) ==
  IF Head(text) = "-" THEN 0 - int_digits(Tail(text), 0) ELSE int_digits(text, 0)

\* text.replace(a, b)
replace(text, a, b) == [i \in 1..Len(text) |-> IF text[i] = a THEN b ELSE text[i]]

\* text.split(sep)
RECURSIVE split(_, _)
split(text, sep) ==
  IF \A i \in 1..Len(text) : text[i] # sep THEN <<text>>
  ELSE LET i == CHOOSE j \in 1..Len(text) :
                  text[j] = sep /\ \A k \in 1..(j - 1) : text[k] # sep
       IN <<SubSeq(text, 1, i - 1)>> \o split(SubSeq(text, i + 1, Len(text)), sep)

\* sep.join(parts)
RECURSIVE join(_, _)
join(parts, sep) ==
  IF parts = << >> THEN << >>
  ELSE IF Len(parts) = 1 THEN parts[1]
  ELSE parts[1] \o <<sep>> \o join(Tail(parts), sep)

\* The longest prefix of the text made of characters of the class
RECURSIVE run(_, _)
run(text, class) ==
  IF text = << >> \/ Head(text) \notin class THEN << >>
  ELSE <<Head(text)>> \o run(Tail(text), class)

\* One optional group of _REQ_SYNTAX: its separator, then one or more
\* characters of its class (a number, for a numeric group).
group(text, sep, class, numeric) ==
  LET content == IF text # << >> /\ Head(text) = sep
                   THEN run(Tail(text), class) ELSE << >>
  IN IF content # << >> /\ (numeric => IsNumber(content))
       THEN [found |-> TRUE, text |-> content,
             rest |-> SubSeq(text, Len(content) + 2, Len(text))]
       ELSE [found |-> FALSE, text |-> << >>, rest |-> text]

ValueError == [node |-> "ValueError"]
NoSlot == [kind |-> "None"]
IntSlot(n) == [kind |-> "int", v |-> n]
StrSlot(text) == [kind |-> "str", v |-> text]

\* base_models.PropExpression.parse
PropExpression_parse(text) ==
  LET parts == split(text, ".")
      expr == parts[Len(parts)]
      prop == run(expr, NameChars)
      slot == group(SubSeq(expr, Len(prop) + 1, Len(expr)), "@", NameChars, FALSE)
      option == group(slot.rest, "+", NameChars, FALSE)
      value_ == group(option.rest, ":", NameChars, TRUE)
      single == group(value_.rest, "$", NameChars, TRUE)
      less_than == group(single.rest, "<", NameChars, TRUE)
  IN IF prop # << >> /\ less_than.rest = << >> THEN
       [node |-> "PropExpression",
        prop |-> prop,
        slot |-> IF ~slot.found THEN NoSlot
                 ELSE IF IsNumber(slot.text) THEN IntSlot(int(slot.text))
                 ELSE StrSlot(slot.text),
        option |-> IF option.found THEN Some(replace(option.text, "_", " ")) ELSE None,
        value |-> IF value_.found THEN Some(int(value_.text)) ELSE Some(1),
        single |-> IF single.found THEN Some(int(single.text)) ELSE None,
        less_than |-> IF less_than.found THEN Some(int(less_than.text)) ELSE None,
        prefixes |-> SubSeq(parts, 1, Len(parts) - 1)]
     ELSE ValueError

\* base_models.PropExpression.unparse
unparse(prop, slot, option, value_, single, less_than, prefixes) ==
  (IF prefixes # << >> THEN join(prefixes, ".") \o <<".">> ELSE << >>)
    \o prop
    \o (IF slot.kind = "int" /\ slot.v # 0 THEN <<"@">> \o str(slot.v)
        ELSE IF slot.kind = "str" THEN <<"@">> \o slot.v ELSE << >>)
    \o (IF option # None /\ option[1] # << >>
          THEN <<"+">> \o replace(option[1], " ", "_") ELSE << >>)
    \o (IF value_ # 1 THEN <<":">> \o str(value_) ELSE << >>)
    \o (IF Truthy(single) THEN <<"$">> \o str(single[1]) ELSE << >>)
    \o (IF Truthy(less_than) THEN <<"<">> \o str(less_than[1]) ELSE << >>)

\* base_models.PropExpression.__repr__
repr(e) == unparse(e.prop, e.slot, e.option, e.value[1], e.single, e.less_than, e.prefixes)

\* models.PropExpression.parse (and geas5 PropReq.parse, which is the same)
models_parse(text) ==
  LET prop == run(text, WordChars)
      tier == group(SubSeq(text, Len(prop) + 1, Len(text)), "@", DigitChars, TRUE)
      option == group(tier.rest, "#", WordChars \cup {"?"}, FALSE)
      minimum == group(option.rest, ":", DigitChars, TRUE)
      single == group(minimum.rest, "$", DigitChars, TRUE)
      less_than == group(single.rest, "<", DigitChars, TRUE)
  IN IF prop # << >> /\ less_than.rest = << >> THEN
       [node |-> "PropExpression",
        prop |-> prop,
        slot |-> IF tier.found THEN IntSlot(int(tier.text)) ELSE NoSlot,
        option |-> IF option.found THEN Some(replace(option.text, "_", " ")) ELSE None,
        value |-> IF minimum.found THEN Some(int(minimum.text)) ELSE None,
        single |-> IF single.found THEN Some(int(single.text)) ELSE None,
        less_than |-> IF less_than.found THEN Some(int(less_than.text)) ELSE None,
        prefixes |-> << >>]
     ELSE ValueError

\* models.PropExpression.__repr__ (and geas5 PropReq.__repr__)
models_repr(e) ==
  e.prop
    \o (IF e.slot.kind = "int" /\ e.slot.v # 0 THEN <<"@">> \o str(e.slot.v) ELSE << >>)
    \o (IF e.option # None /\ e.option[1] # << >>
          THEN <<"#">> \o replace(e.option[1], " ", "_") ELSE << >>)
    \o (IF Truthy(e.value) THEN <<":">> \o str(e.value[1]) ELSE << >>)
    \o (IF Truthy(e.single) THEN <<"$">> \o str(e.single[1]) ELSE << >>)
    \o (IF Truthy(e.less_than) THEN <<"<">> \o str(e.less_than[1]) ELSE << >>)

NoneOf(nodes) == [node |-> "NoneOf", none |-> nodes]

\* base_models.parse_req of a string: "-" is the negation prefix.
parse_req(text) ==
  IF text # << >> /\ Head(text) = "-" THEN
    (IF PropExpression_parse(Tail(text)) = ValueError THEN ValueError
     ELSE NoneOf(<<PropExpression_parse(Tail(text))>>))
  ELSE PropExpression_parse(text)

\* models.parse_req (and geas5 parse_req) of a string: "!" is the negation
\* prefix.
models_parse_req(text) ==
  IF text # << >> /\ Head(text) = "!" THEN
    (IF models_parse(Tail(text)) = ValueError THEN ValueError
     ELSE NoneOf(<<models_parse(Tail(text))>>))
  ELSE models_parse(text)

\* base_models.PropExpression.evaluate: the success of the Decision, with
\* char.get(expr) and char.get(expr$0) answered by the lookup
PropExpression_evaluate(e, lookup) ==
  IF e.less_than # None THEN lookup.ranks < e.less_than[1]
  ELSE IF e.single # None THEN lookup.max_ranks >= e.single[1]
  ELSE lookup.ranks >= e.value[1]

\* models.PropExpression.evaluate
models_evaluate(e, lookup) ==
  IF ~lookup.has_prop THEN FALSE
  ELSE IF e.value # None THEN lookup.ranks >= e.value[1]
  ELSE IF e.less_than # None THEN lookup.ranks < e.less_than[1]
  ELSE IF e.single # None THEN lookup.max_ranks >= e.single[1]
  ELSE lookup.ranks >= 1

\* NoneOf.evaluate and the evaluation of the node a string parses to
evaluate(node, lookup, rules) ==
  LET leaf(e) == IF rules = "base_models" THEN PropExpression_evaluate(e, lookup)
                 ELSE models_evaluate(e, lookup)
  IN IF node.node = "NoneOf"
       THEN \A i \in 1..Len(node.none) : ~leaf(node.none[i])
       ELSE leaf(node)

\* The two sets of rules that read requirement strings
Rules == {"base_models", "models"}

Numerals == {str(n) : n \in 0..MaxNumber}
Optional(sep, texts) == { << >> } \cup { <<sep>> \o t : t \in texts }

\* Requirement strings: an optional negation, an optional scope prefix, the
\* property, and the suffixes in the order of the grammar.
ReqTexts ==
  { negation \o scope \o <<"p">> \o slot \o option \o value_ \o single \o less_than :
      negation \in { << >>, <<"-">>, <<"!">> },
      scope \in { << >>, <<"s", ".">> },
      slot \in Optional("@", {str(0), str(1)}),
      option \in { << >>, <<"+", "o", "_", "o">>, <<"#", "o">> },
      value_ \in Optional(":", Numerals \cup { <<"0", "1">> }),
      single \in Optional("$", Numerals),
      less_than \in Optional("<", Numerals) }

Lookups ==
  [ranks : 0..MaxNumber, max_ranks : 0..MaxNumber, has_prop : BOOLEAN]

RequirementsInit ==
  /\ new_character /\ awarded_cp = 0 /\ costing = NoCosting /\ agg = NoAggregator
  /\ sheet = NoSheet /\ opts = NoOptions
  /\ \E rules \in Rules, text \in ReqTexts :
       req = [rules |-> rules, text |-> text, op |-> "new",
              parsed |-> None, out |-> None]

RequirementUnchanged == CharacterUnchanged /\ UNCHANGED <<costing, agg, sheet, opts>>

\* parse_req(text)
ParseReq ==
  /\ req.op = "new"
  /\ req' = [req EXCEPT !.op = "parse_req",
               !.parsed = Some(IF req.rules = "base_models" THEN parse_req(req.text)
                               ELSE models_parse_req(req.text))]
  /\ RequirementUnchanged

\* repr(expression) of a parsed property expression
Repr ==
  /\ req.parsed # None /\ req.parsed[1].node = "PropExpression"
  /\ req' = [req EXCEPT !.op = "repr",
               !.out = Some(IF req.rules = "base_models" THEN repr(req.parsed[1])
                            ELSE models_repr(req.parsed[1]))]
  /\ RequirementUnchanged

\* node.evaluate(char), the character answering as the lookup
Evaluate(lookup) ==
  /\ req.parsed # None /\ req.parsed[1] # ValueError
  /\ req.rules = "base_models" => lookup.has_prop
  /\ req' = [req EXCEPT !.op = "evaluate",
               !.out = Some([lookup |-> lookup,
                             success |-> evaluate(req.parsed[1], lookup, req.rules)])]
  /\ RequirementUnchanged

RequirementsNext ==
  \/ ParseReq
  \/ Repr
  \/ \E lookup \in Lookups : Evaluate(lookup)

SpecRequirements == RequirementsInit /\ [][RequirementsNext]_vars

(***************************************************************************)
(* Class levels of a multiclass character and the attributes summed over   *)
(* them.                                                                   *)
(***************************************************************************)
\* The classes of the multiclass test and definition.sphere of each
SheetClasses == {"fighter", "wizard", "druid"}
sphere(c) ==
  CASE c = "fighter" -> "martial"
    [] c = "wizard" -> "arcane"
    [] c = "druid" -> "divine"

\* ClassController.martial / arcane / divine / caster
class_flag(c, condition) ==
  IF condition = "caster" THEN sphere(c) # "martial" ELSE sphere(c) = condition

SumAttributes == {"level", "martial", "arcane", "divine", "caster"}
\* The condition SumAttribute is built with: None for "level"
condition_of(a) == IF a = "level" THEN None ELSE Some(a)

\* Fault model: a sum over every class, whatever the condition.
sum_attribute_unconditional(classes, condition) == SumOver(SheetClasses, classes)

\* SumAttribute.value over the class controllers of the character
sum_attribute(classes, condition) ==
  SumOver({c \in SheetClasses : condition = None \/ class_flag(c, condition[1])},
          classes)

\* Fault model: the single form answered with the total.
sum_attribute_max_total(classes, condition) == sum_attribute(classes, condition)

\* SumAttribute.max_value
sum_attribute_max(classes, condition) ==
  LET counted == {c \in SheetClasses : condition = None \/ class_flag(c, condition[1])}
  IN IF counted = {} THEN 0
     ELSE LET top == CHOOSE c \in counted : \A d \in counted : classes[d] <= classes[c]
          IN classes[top]

\* ClassController.increase on the sheet: the first class takes at least two
\* ranks, and the levels the character's XP allows bound the purchase.
sheet_increase(classes, c, requested) ==
  LET level == sum_attribute(classes, None)
      n == IF level = 0 /\ requested < 2 THEN 2 ELSE requested
      available == Min(MaxLevel - level, MaxLevel - classes[c])
  IN IF n > 0 /\ available >= n THEN [classes EXCEPT ![c] = @ + n] ELSE classes

SheetInit ==
  /\ new_character /\ awarded_cp = 0 /\ costing = NoCosting /\ agg = NoAggregator
  /\ req = NoRequirement /\ opts = NoOptions
  /\ sheet = [classes |-> [c \in SheetClasses |-> 0], last |-> [op |-> "new"]]

SheetUnchanged == CharacterUnchanged /\ UNCHANGED <<costing, agg, req, opts>>

\* character.purchase("class:n")
PurchaseClass(c, n) ==
  /\ sheet' = [classes |-> sheet_increase(sheet.classes, c, n),
               last |-> [op |-> "purchase", id |-> c]]
  /\ SheetUnchanged

\* character.get(attribute)
GetAttribute(a) ==
  /\ sheet' = [sheet EXCEPT !.last =
                 [op |-> "get", id |-> a,
                  value |-> sum_attribute(sheet.classes, condition_of(a))]]
  /\ SheetUnchanged

\* character.meets_requirements("attribute:n")
MeetsAttribute(a, n) ==
  /\ sheet' = [sheet EXCEPT !.last =
                 [op |-> "meets_requirements", id |-> a, value |-> n,
                  success |-> PropExpression_evaluate(
                                [prop |-> a, value |-> Some(n), single |-> None,
                                 less_than |-> None],
                                [ranks |-> sum_attribute(sheet.classes, condition_of(a)),
                                 max_ranks |-> sum_attribute_max(sheet.classes,
                                                                 condition_of(a))])]]
  /\ SheetUnchanged

\* character.meets_requirements("attribute$n")
MeetsSingle(a, n) ==
  /\ sheet' = [sheet EXCEPT !.last =
                 [op |-> "meets_single", id |-> a, value |-> n,
                  success |-> PropExpression_evaluate(
                                [prop |-> a, value |-> Some(1), single |-> Some(n),
                                 less_than |-> None],
                                [ranks |-> sum_attribute(sheet.classes, condition_of(a)),
                                 max_ranks |-> sum_attribute_max(sheet.classes,
                                                                 condition_of(a))])]]
  /\ SheetUnchanged

SheetNext ==
  \/ \E c \in SheetClasses, n \in 1..MaxLevel : PurchaseClass(c, n)
  \/ \E a \in SumAttributes : GetAttribute(a)
  \/ \E a \in SumAttributes, n \in 1..(MaxLevel + 1) : MeetsAttribute(a, n)
  \/ \E a \in SumAttributes, n \in 1..(MaxLevel + 1) : MeetsSingle(a, n)

SpecSheet == SheetInit /\ [][SheetNext]_vars

(***************************************************************************)
(* Features that take options: the options a character holds of a feature, *)
(* the options it may still take, and the aggregate view of the bare id.   *)
(***************************************************************************)
\* Character points of the character that buys option skills
OptionCp == 6

\* The option skills of the example ruleset (tests/tempest_example), with two
\* of the listed values of specific-options
OptionFeatures ==
  {"specific-options", "single-option", "inherited-option", "inherited-with-ranks"}

\* definition.option: the listed values or the inherit expression, and
\* whether more than one option may be held
option_def(f) ==
  CASE f = "specific-options" ->
         [values |-> {"One", "Two"}, inherit |-> None, multiple |-> TRUE]
    [] f = "single-option" ->
         [values |-> {"Rock", "Paper"}, inherit |-> None, multiple |-> FALSE]
    [] f = "inherited-option" ->
         [values |-> {}, multiple |-> TRUE,
          inherit |-> Some([prop |-> "specific-options", value |-> 1])]
    [] f = "inherited-with-ranks" ->
         [values |-> {}, multiple |-> TRUE,
          inherit |-> Some([prop |-> "specific-options", value |-> 4])]

\* definition.ranks of the option skills (specific-options#Two:4 is bought)
option_ranks(f) == IF f = "specific-options" THEN 4 ELSE 1

\* The options a purchase may name for a feature: those some feature lists,
\* and one that no feature lists.
OptionNames == {"One", "Two", "Rock", "Paper", "Fifty Two"}
\* The options a character can come to hold of a feature
OptionsOf(f) ==
  IF option_def(f).inherit = None THEN option_def(f).values
  ELSE option_def(option_def(f).inherit[1].prop).values
OptionKeys == {k \in OptionFeatures \X OptionNames : k[2] \in OptionsOf(k[1])}

\* base_models.full_id / PropExpression.full_id: the key of a controller in
\* character.features, as the id, the separator and the option
option_full_id(f, option) == IF option = None THEN <<f>> ELSE <<f, "+", option[1]>>

\* feat.startswith(f"{self.id}#")
startswith_id_hash(feat, f) == Len(feat) >= 2 /\ feat[1] = f /\ feat[2] = "#"

\* FeatureController.value of an option skill: the aggregate over the held
\* instances for the bare id, the ranks of the instance otherwise
option_value(held, f, option) ==
  IF option = None THEN
    SumOver({k \in OptionKeys : startswith_id_hash(option_full_id(k[1], Some(k[2])), f)},
            held)
  ELSE IF <<f, option[1]>> \in OptionKeys THEN held[<<f, option[1]>>] ELSE 0

\* FeatureController.max_value of an option skill
option_max_value(held, f, option) ==
  IF option = None THEN
    LET instances == {k \in OptionKeys :
                        startswith_id_hash(option_full_id(k[1], Some(k[2])), f)}
    IN IF \A k \in instances : held[k] <= 0 THEN 0
       ELSE held[CHOOSE k \in instances : \A j \in instances : held[j] <= held[k]]
  ELSE option_value(held, f, option)

\* TempestCharacter.get_prop of a feature: controller.value, whatever the
\* comparison mode of the expression
option_get_prop(held, f, option, single) == option_value(held, f, option)

\* FeatureController.taken_options / TempestCharacter.get_options
taken_options(held, f) ==
  {k[2] : k \in {j \in OptionKeys : j[1] = f /\ held[j] > 0}}

\* a ^ b on sets
symmetric_difference(a, b) == (a \ b) \cup (b \ a)

\* CharacterController.options_values_for_feature
options_values_for_feature(held, f, exclude_taken) ==
  LET od == option_def(f)
      taken == taken_options(held, f)
      options_excluded == IF exclude_taken THEN taken ELSE {}
      legal_values ==
        IF od.inherit # None THEN
          {o \in taken_options(held, od.inherit[1].prop) :
             option_get_prop(held, od.inherit[1].prop, Some(o), None)
               >= od.inherit[1].value}
        ELSE od.values
  IN IF od.values = {} /\ od.inherit = None THEN {}
     ELSE IF exclude_taken /\ taken # {} /\ ~od.multiple THEN {}
     ELSE symmetric_difference(legal_values, options_excluded)

\* character.cp.value: the points not spent on the ranks held (each rank of
\* an option skill costs one point)
option_cp(held) == OptionCp - SumOver(OptionKeys, held)

\* FeatureController.can_increase and the cost check of
\* CostsCharacterPointsController.can_increase
option_can_increase(held, f, option, n) ==
  LET current == option_value(held, f, option)
      bought == IF option # None /\ <<f, option[1]>> \in OptionKeys
                  THEN held[<<f, option[1]>>] ELSE 0
  IN IF n <= 0 THEN [success |-> FALSE, needs_option |-> FALSE]
     ELSE IF current >= option_ranks(f) THEN [success |-> FALSE, needs_option |-> FALSE]
     ELSE IF current + n > option_ranks(f)
       THEN [success |-> FALSE, needs_option |-> FALSE]
     ELSE IF option = None THEN [success |-> FALSE, needs_option |-> TRUE]
     ELSE IF bought = 0
             /\ option[1] \notin options_values_for_feature(held, f, TRUE)
       THEN [success |-> FALSE, needs_option |-> FALSE]
     ELSE IF option_cp(held) < n THEN [success |-> FALSE, needs_option |-> FALSE]
     ELSE [success |-> TRUE, needs_option |-> FALSE]

\* FeatureController.can_decrease
option_can_decrease(held, f, option, n) ==
  LET bought == IF option # None /\ <<f, option[1]>> \in OptionKeys
                  THEN held[<<f, option[1]>>] ELSE 0
  IN [success |-> n >= 1 /\ n <= bought, needs_option |-> FALSE]

OptionsInit ==
  /\ new_character /\ awarded_cp = 0 /\ costing = NoCosting /\ agg = NoAggregator
  /\ req = NoRequirement /\ sheet = NoSheet
  /\ opts = [held |-> [k \in OptionKeys |-> 0], last |-> [op |-> "new"]]

OptionsUnchanged == CharacterUnchanged /\ UNCHANGED <<costing, agg, req, sheet>>

\* character.purchase(Purchase(id, option, ranks)), ranks > 0
PurchaseOption(f, option, n) ==
  /\ \E rd \in {option_can_increase(opts.held, f, option, n)} :
       opts' = [held |-> IF rd.success
                           THEN [opts.held EXCEPT ![<<f, option[1]>>] = @ + n]
                           ELSE opts.held,
                last |-> [op |-> "purchase", id |-> f, option |-> option,
                          success |-> rd.success]]
  /\ OptionsUnchanged

\* character.purchase(Purchase(id, option, ranks)), ranks < 0
SellOption(f, option, n) ==
  /\ \E rd \in {option_can_decrease(opts.held, f, option, n)} :
       opts' = [held |-> IF rd.success
                           THEN [opts.held EXCEPT ![<<f, option[1]>>] = @ - n]
                           ELSE opts.held,
                last |-> [op |-> "sellback", id |-> f, option |-> option,
                          success |-> rd.success]]
  /\ OptionsUnchanged

\* character.can_purchase(id) of the bare feature
CanPurchaseBare(f) ==
  /\ opts' = [opts EXCEPT !.last =
                [op |-> "can_purchase", id |-> f,
                 rd |-> option_can_increase(opts.held, f, None, 1)]]
  /\ OptionsUnchanged

\* character.options_values_for_feature(id, exclude_taken=True)
OptionsValues(f) ==
  /\ opts' = [opts EXCEPT !.last =
                [op |-> "options_values_for_feature", id |-> f,
                 values |-> options_values_for_feature(opts.held, f, TRUE)]]
  /\ OptionsUnchanged

\* character.get_prop(id) and character.get_prop(id$0) of the bare feature
GetOptions(f, single) ==
  /\ opts' = [opts EXCEPT !.last =
                [op |-> "get", id |-> f, single |-> single,
                 value |-> option_get_prop(opts.held, f, None, single)]]
  /\ OptionsUnchanged

OptionsNext ==
  \/ \E f \in OptionFeatures, o \in OptionNames, n \in 1..MaxDelta :
       PurchaseOption(f, Some(o), n)
  \/ \E f \in OptionFeatures : PurchaseOption(f, None, 1)
  \/ \E f \in OptionFeatures, o \in OptionNames : SellOption(f, Some(o), 1)
  \/ \E f \in OptionFeatures : CanPurchaseBare(f)
  \/ \E f \in OptionFeatures : OptionsValues(f)
  \/ \E f \in OptionFeatures, single \in {None, Some(0)} : GetOptions(f, single)

SpecOptions == OptionsInit /\ [][OptionsNext]_vars

(***************************************************************************)
(* Properties                                                              *)
(***************************************************************************)
\* The reconcile() calls, in call order, of every operation that can be
\* performed on the character as it stands.
NextTraces ==
  UNION { { purchase(Cur(seed), f, n).s.trace : f \in Features, n \in Deltas }
            \cup { reconcile(Cur(seed), f).trace : f \in Features }
            \cup { load_character(Cur(seed), order).trace : order \in LoadOrders }
          : seed \in HashSeeds }

Events == UNION { SeqToSet(tr) : tr \in NextTraces }

\* The (target, amount) pairs a declaration lists, whatever its form.
RECURSIVE Declared(_)
Declared(g) ==
  IF IsFalsy(g) THEN << >>
  ELSE IF g.kind = "str" THEN << <<g.id, IF g.value # 0 THEN g.value ELSE 1>> >>
  ELSE IF g.kind = "list" THEN
    Declared(Head(g.items)) \o Declared(ListGrant(Tail(g.items)))
  ELSE g.items

DeclaredGrants(f, id) ==
  {i \in 1..Len(Declared(GrantsDecl(f))) : Declared(GrantsDecl(f))[i][1] = id}

DeclaredTargets(f) ==
  {id \in Features \cup Attributes :
     \/ DeclaredGrants(f, id) # {}
     \/ \E i \in 1..Len(Declared(DiscountsDecl(f))) :
          Declared(DiscountsDecl(f))[i][1] = id}

DeclaredEdges ==
  {e \in Features \X (Features \cup Attributes) : e[2] \in DeclaredTargets(e[1])}

Active(f) == f \in linked /\ eff[f] > 0

\* C1: after successful increases are sold back in exactly the reverse order,
\* every grant target (feature or attribute) holds the granted ranks it held
\* before the increase that is undone.
C1_SellbackRestoresGrants ==
  [][Len(undo') < Len(undo) =>
       /\ granted' = undo[Len(undo)].granted
       /\ attr' = undo[Len(undo)].attr]_vars

\* A run of increases whose sale cascaded through list-skill and granted-skill
\* has been sold back completely.
C1_Witness ==
  /\ undo = << >>
  /\ lastOp = Op("purchase", SUCCESS)
  /\ \E p \in sent_log : p.from = "list-skill" /\ p.grants < 0
  /\ \E p \in sent_log : p.from = "granted-skill" /\ p.grants < 0

\* C2: reconcile() sends PropagationData exactly when the effective ranks move
\* from 0 to a positive value or from a positive value to 0: a change between
\* two positive values sends nothing, and an activation sends to every declared
\* target, with the declared amount where the target is declared once.
C2_BoundaryOnlyPropagation ==
  \A e \in Events :
    LET crossing == (e.from = 0) # (e.to = 0)
        targets == {p.id : p \in SeqToSet(e.sent)}
    IN /\ ~crossing => e.sent = << >>
       /\ crossing => targets = DeclaredTargets(e.f)
       /\ (e.from = 0 /\ e.to > 0) =>
            \A p \in SeqToSet(e.sent) :
              /\ Cardinality(DeclaredGrants(e.f, p.id)) = 1 =>
                   \E i \in DeclaredGrants(e.f, p.id) :
                     p.grants = Declared(GrantsDecl(e.f))[i][2]
              /\ DeclaredGrants(e.f, p.id) # {} => p.grants > 0

\* fighter, alone on the sheet, has just been raised from 2 to 3 and nothing
\* was sent.
C2_Witness ==
  /\ lastOp = Op("purchase", SUCCESS)
  /\ purchased = [f \in Features |-> IF f = "fighter" THEN 3 ELSE 0]
  /\ linked = {"fighter", "basic-skill"}
  /\ sent_log = {}

\* C3: a second reconcile() on a controller, with no change to its purchased
\* or granted ranks since the first, leaves the effective ranks as they are and
\* sends nothing; the first call is either a direct one or the one that ends a
\* successful purchase.
C3_ReconcileIdempotent ==
  \A seed \in HashSeeds, f \in Features :
    /\ \E once \in {reconcile(Cur(seed), f)} :
         \E twice \in {reconcile([once EXCEPT !.trace = << >>], f)} :
           /\ twice.eff = once.eff
           /\ Sends(twice.trace) = << >>
    /\ \A n \in Deltas :
         \E r \in {purchase(Cur(seed), f, n)} :
           r.rd.success =>
             \E again \in {reconcile([r.s EXCEPT !.trace = << >>], f)} :
               /\ again.eff = r.s.eff
               /\ Sends(again.trace) = << >>

\* reconcile() has been called on a character that holds an active grantor.
C3_Witness ==
  /\ lastOp = Op("reconcile", SUCCESS)
  /\ sent_log = {}
  /\ \E f \in Features : Active(f) /\ DeclaredTargets(f) # {}

C5_ValueIsFresh ==
  \A seed \in HashSeeds, f \in Features :
    value(Cur(seed), f) =
      IF granted[f] + purchased[f] < ranks(f)
        THEN granted[f] + purchased[f] ELSE ranks(f)

\* A feature that was registered with no ranks and has been granted ranks
\* since, by a purchase of another feature.
C5_Witness ==
  /\ lastOp = Op("purchase", SUCCESS)
  /\ \E p \in sent_log :
       /\ p.grants > 0
       /\ p.to \in Features
       /\ purchased[p.to] = 0
       /\ eff[p.to] > 0
       /\ eff[p.from] > 0

\* The amount feature f declares toward id, every listed amount counted.
RECURSIVE SumPairs(_, _)
SumPairs(pairs, id) ==
  IF pairs = << >> THEN 0
  ELSE (IF Head(pairs)[1] = id THEN Head(pairs)[2] ELSE 0)
         + SumPairs(Tail(pairs), id)

DeclaredSum(id) ==
  SumOver({f \in Features : Active(f)},
          [f \in Features |-> SumPairs(Declared(GrantsDecl(f)), id)])

\* C6: each feature's (and attribute's) granted ranks equal the sum of the
\* grant amounts declared toward it by the features that are currently active.
C6_GrantedIsDeclaredSum ==
  /\ \A t \in Features : granted[t] = DeclaredSum(t)
  /\ \A a \in Attributes : attr[a] = DeclaredSum(a)

Negated(data) ==
  {[id |-> p.id, grants |-> -p.grants, discount |-> -p.discount] : p \in data}

\* C7: whatever the form of its declarations, what a feature sends to each
\* target when it deactivates is the negation, in grants and in discount, of
\* what it sent to that target when it activated.
C7_DeactivationNegatesActivation ==
  \A e \in Events :
    (e.from > 0 /\ e.to = 0) => SeqToSet(e.sent) = Negated(e.activation)

\* list-skill (list and discount mapping) has been sold back, and with it
\* granted-skill (mapping) lost its only rank.
C7_Witness ==
  /\ lastOp = Op("purchase", SUCCESS)
  /\ \E p \in sent_log :
       p.from = "list-skill" /\ p.to = "grants-skill" /\ p.discount < 0
  /\ \E p \in sent_log :
       p.from = "list-skill" /\ p.to = "granted-skill" /\ p.grants < 0
  /\ \E p \in sent_log :
       p.from = "granted-skill" /\ p.to = "lp" /\ p.grants < 0

RequirementsMet(f) ==
  meets_requirements(Cur("forward"), requires(f)).ok

\* C8: loading the persisted ranks and reconciling every feature gives each
\* feature the granted ranks, discount and effective ranks of the live
\* character, whatever the order of the persisted entries; requirements met
\* before are met after, and the persisted record is the same.
C8_LoadRebuildsLiveState ==
  [][lastOp'.op = "load" =>
       /\ granted' = granted
       /\ discount' = discount
       /\ eff' = eff
       /\ attr' = attr
       /\ \A f \in Features : RequirementsMet(f) => RequirementsMet(f)'
       /\ purchased' = purchased
       /\ model_keys' = model_keys
       /\ primary_class' = primary_class
       /\ starting_class' = starting_class]_vars

\* A character with capped grants and a discount has been loaded.
C8_Witness ==
  /\ lastOp = Op("load", SUCCESS)
  /\ granted["basic-skill"] > ranks("basic-skill")
  /\ discount["grants-skill"] > 0
  /\ RequirementsMet("basic-skill")

\* C9: with acyclic grant and discount declarations every cascade ends without
\* reaching the recursion limit, after at most one propagate call per declared
\* (feature, target) pair.
C9_CascadeTerminates ==
  /\ ~overflow
  /\ Cardinality(sent_log) <= Cardinality(DeclaredEdges)

\* A purchase whose cascade went through several features.
C9_Witness ==
  /\ lastOp = Op("purchase", SUCCESS)
  /\ Cardinality({p.from : p \in sent_log}) >= 2
  /\ Cardinality(sent_log) >= 4

\* C10: an increase or decrease whose guard fails returns the guard's failed
\* Decision and leaves the purchased, granted and effective ranks and the
\* discount of every feature, the attribute grants and the available CP as
\* they were.
C10_FailedGuardChangesNothing ==
  \A seed \in HashSeeds, f \in Features, n \in Deltas \ {0} :
    \E r \in {purchase(Cur(seed), f, n)} :
      ~r.rd.success =>
        /\ r.rd = can_purchase(Cur(seed), f, n).rd
        /\ r.s.purchased = purchased
        /\ r.s.granted = granted
        /\ r.s.discount = discount
        /\ r.s.eff = eff
        /\ r.s.attr = attr
        /\ r.s.model_keys = model_keys
        /\ cp_value(r.s) = cp_value(Cur(seed))

\* A purchase has been refused on a character that holds purchased and
\* granted ranks and a discount.
C10_Witness ==
  /\ lastOp = [op |-> "purchase", success |-> FALSE]
  /\ \E f \in Features : purchased[f] > 0 /\ granted[f] > 0
  /\ \E f \in Features : discount[f] > 0

\* C11: a successful increase and a successful decrease each return a Decision
\* whose amount is the effective rank the feature has after the operation.
C11_SuccessReturnsResultingRank ==
  \A seed \in HashSeeds, f \in Features, n \in Deltas \ {0} :
    \E r \in {purchase(Cur(seed), f, n)} :
      r.rd.success => r.rd.amount = <<r.s.eff[f]>>

\* C12: can_purchase, with the can_increase / can_decrease guard it calls,
\* leaves the purchased ranks, granted ranks, discount and effective ranks of
\* every feature, the attribute grants and the available CP as they were, whether it
\* answers success or failure.
C12_CanPurchaseCommitsNothing ==
  [][lastOp'.op = "can_purchase" =>
       /\ purchased' = purchased
       /\ granted' = granted
       /\ discount' = discount
       /\ attr' = attr
       /\ model_keys' = model_keys
       /\ eff' = eff
       /\ cp_value(Cur("forward"))' = cp_value(Cur("forward"))]_vars

\* can_purchase has answered success on a character that holds purchased and
\* granted ranks and a discount and can afford more.
C12_Witness ==
  /\ lastOp = Op("can_purchase", SUCCESS)
  /\ \E f \in Features : purchased[f] > 0 /\ granted[f] > 0
  /\ \E f \in Features : discount[f] > 0
  /\ cp_value(Cur("forward")) > 0

\* C13: can_purchase and purchase of an id that names no feature of the
\* ruleset return a failed Decision whose reason is "Feature not defined".
C13_UndefinedFeatureNotDefined ==
  \A seed \in HashSeeds, n \in Deltas \ {0} :
    /\ can_purchase(Cur(seed), UndefinedFeature, n).rd
         = Decision(FALSE, "Feature not defined", NoAmount)
    /\ purchase(Cur(seed), UndefinedFeature, n).rd
         = Decision(FALSE, "Feature not defined", NoAmount)

\* C14: purchase and can_purchase of a positive delta n are increase and
\* can_increase of n; of a negative delta -n they are decrease and can_decrease
\* of n.
C14_DispatchBySign ==
  \A seed \in HashSeeds, f \in Features, n \in 1..MaxDelta :
    /\ purchase(Cur(seed), f, n) = increase(Cur(seed), f, n)
    /\ purchase(Cur(seed), f, -n) = decrease(Cur(seed), f, n)
    /\ can_purchase(Cur(seed), f, n) = can_increase(Cur(seed), f, n)
    /\ can_purchase(Cur(seed), f, -n).rd = can_decrease(Cur(seed), f, n)

\* A purchase of a negative delta has succeeded and took a grantor's ranks to 0.
C14_Witness ==
  /\ lastOp = Op("purchase", SUCCESS)
  /\ \E p \in sent_log : p.grants < 0 /\ purchased[p.from] = 0

\* C15: can_purchase and purchase of n more ranks fail whenever the feature's
\* effective ranks plus n exceed the ranks its definition allows; the purchase
\* then buys nothing.
C15_RankCapRefusesPurchase ==
  \A seed \in HashSeeds, f \in Features, n \in 1..MaxDelta :
    value(Cur(seed), f) + n > ranks(f) =>
      /\ ~can_purchase(Cur(seed), f, n).rd.success
      /\ \E r \in {purchase(Cur(seed), f, n)} :
           ~r.rd.success /\ r.s.purchased = purchased

\* A purchase has been refused on a character that holds the single-rank
\* list-skill and has the CP to buy it again.
C15_Witness ==
  /\ lastOp = [op |-> "purchase", success |-> FALSE]
  /\ purchased["list-skill"] = ranks("list-skill")
  /\ cp_value(Cur("forward")) >= cost_def("list-skill")

\* C16: can_purchase and purchase of n ranks of a skill fail whenever
\* cost_for(paid_ranks + n) - cost_for(paid_ranks) exceeds the character's
\* available CP.
C16_UnaffordableRefused ==
  \A seed \in HashSeeds, f \in Skills, n \in 1..MaxDelta :
    cost_for(Cur(seed), f, paid_ranks(Cur(seed), f) + n) - cp_cost(Cur(seed), f)
        > cp_value(Cur(seed)) =>
      /\ ~can_purchase(Cur(seed), f, n).rd.success
      /\ \E r \in {purchase(Cur(seed), f, n)} :
           ~r.rd.success /\ r.s.purchased = purchased

\* A purchase has been refused on a character with a skill below its cap,
\* requirements met, that costs more than the CP left.
C16_Witness ==
  /\ lastOp = [op |-> "purchase", success |-> FALSE]
  /\ \E f \in Skills :
       /\ eff[f] < ranks(f)
       /\ RequirementsMet(f)
       /\ cost_for(Cur("forward"), f, paid_ranks(Cur("forward"), f) + 1)
            - cp_cost(Cur("forward"), f) > cp_value(Cur("forward"))

\* The cost of rank r alone, before any discount.
RankCost(cd, r) == IF cd.kind = "int" THEN cd.cp ELSE table_lookup(cd.table, r)

\* C17: the cost of n ranks is the sum over the ranks 1..n of
\* max(cost of the rank - discount, 1).
C17_TotalCostIsDiscountedSum ==
  costing.op = "cost_for" =>
    costing.result =
      SumOver(1..costing.n,
              [r \in 1..costing.n |->
                 Max(RankCost(costing.cd, r) - costing.discount, 1)])

\* Three ranks of a flat cost of 2 have been priced under a discount of 2.
C17_Witness ==
  /\ costing.op = "cost_for"
  /\ costing.cd = IntCost(2)
  /\ costing.discount = 2
  /\ costing.n = 3
  /\ costing.result = 3

\* n more ranks fit the budget of the quote.
Affordable(c, n) ==
  LET paid == paid_ranks_of(c.purchased, c.granted, c.cap)
  IN cost_for_ranks(c.cd, c.discount, paid + n)
       - cost_for_ranks(c.cd, c.discount, paid) <= c.budget

\* C18: max_rank_increase(B) is the largest n between 0 and the ranks left
\* below the cap with cost_for(paid_ranks + n) - cost_for(paid_ranks) <= B.
C18_MaxRankIncreaseIsLargest ==
  costing.op = "max_rank_increase" =>
    LET left == costing.cap - Min(costing.granted + costing.purchased, costing.cap)
    IN /\ costing.result \in 0..left
       /\ Affordable(costing, costing.result)
       /\ \A n \in (costing.result + 1)..left : ~Affordable(costing, n)

\* max_rank_increase has answered for a new feature with the 1/1/2/2/3 table,
\* no discount and a budget of 6.
Scenario ==
  /\ costing.op = "max_rank_increase"
  /\ costing.cd = VaryingCost
  /\ costing.discount = 0
  /\ costing.granted = 0
  /\ costing.purchased = 0
  /\ costing.budget = 6

\* C19: with costs 1, 1, 2, 2, 3 for ranks 1 to 5, no discount, no ranks held
\* and a budget of 6, max_rank_increase returns 3.
C19_ScenarioReturnsThree ==
  Scenario /\ costing.cap >= 5 => costing.result = 3

\* C19, as the code has it: the answer is 4 (1 + 1 + 2 + 2 = 6 fits the
\* budget), for every rank cap of 4 or more.
C19_ScenarioReturnsFour ==
  Scenario /\ costing.cap >= 4 => costing.result = 4

C19_Witness ==
  Scenario /\ costing.cap = 5 /\ costing.result = 4

\* C20: whatever apply_mod, get and get_max calls came before, the value a
\* get or get_max returns is the one computed from the modifier lists as they
\* are; so a tag property evaluated before a modifier went to a property
\* carrying its tag shows that modifier on its next get.
C20_GetIsRecomputed ==
  /\ agg.last.op = "get_prop" =>
       agg.last.value =
         computed(agg.defs[agg.last.prop], modifiers_of(agg, agg.last.prop)).rounded
  /\ agg.last.op = "get_prop_max" =>
       agg.last.value =
         computed(agg.defs[agg.last.prop], modifiers_of(agg, agg.last.prop)).max

\* C25: define_property with an id that is already defined fails (a property
\* is defined only under an id not defined before), and the failed call leaves
\* the property defined earlier, its modifiers and the value it evaluates to
\* as they were.
C25_DuplicateDefineFails ==
  [][/\ agg'.last.op = "define_property" => ~has_property(agg, agg'.last.prop)
     /\ agg'.last.op = "ValueError" =>
          /\ has_property(agg, agg'.last.prop)
          /\ agg'.order = agg.order
          /\ agg'.defs = agg.defs
          /\ agg'.mods = agg.mods
          /\ get_prop_agg(agg', agg'.last.prop).last.value
               = get_prop_agg(agg, agg'.last.prop).last.value
          /\ get_prop_max(agg', agg'.last.prop).last.value
               = get_prop_max(agg, agg'.last.prop).last.value]_vars

C25_Witness ==
  /\ agg.last.op = "ValueError"
  /\ agg.mods[agg.last.prop] # << >>
  /\ get_prop_agg(agg, agg.last.prop).last.value > 0
\* The values of a modifier list, in order
ModifierValues(mods) == [i \in 1..Len(mods) |-> mods[i].value]

\* The sources that contribute to a modifier list, and the total of one source
Contributing(mods) == {m.source : m \in {n \in SeqToSet(mods) : n.value # 0}}
SourceTotal(prop, mods, source) == prop.base + SumValues(mods, {source})
AllSources(mods) == {m.source : m \in SeqToSet(mods)}

\* The modifiers of every property whose tag set contains t
TaggedSum(a, t) ==
  LET Carriers == {q \in DOMAIN a.defs : t \in a.defs[q].tags}
      RECURSIVE Total(_)
      Total(qs) == IF qs = {} THEN 0
                   ELSE LET q == CHOOSE x \in qs : TRUE
                        IN SumValues(a.mods[q], AllSources(a.mods[q])) + Total(qs \ {q})
  IN Total(Carriers)

\* C21: a tag property with no modifiers of its own evaluates to the sum of
\* the modifier values of every property whose tag set contains it (forced
\* into the property's range): with A tagged {T} holding 5 and B tagged {T}
\* holding 3, T evaluates to 8.
C21_TagIsSumOfTagged ==
  agg.last.op = "get_prop" /\ agg.defs[agg.last.prop].is_tag
    /\ agg.mods[agg.last.prop] = << >> =>
      agg.last.value =
        _force_range(agg.defs[agg.last.prop],
                     agg.defs[agg.last.prop].base + TaggedSum(agg, agg.last.prop))

RECURSIVE ForcedAfterEach(_, _, _)
ForcedAfterEach(prop, mods, k) ==
  IF k = 0 THEN prop.base
  ELSE _force_range(prop, ForcedAfterEach(prop, mods, k - 1) + mods[k].value)

\* C24: with min_max_each true the range is forced after each modifier, so a
\* property with min 0 and the separate modifiers -1, -1, -1, -1, +5 evaluates
\* to 5; with min_max_each false it is forced once after summing, giving 1.
C24_MinMaxEach ==
  agg.last.op = "get_prop" /\ ~agg.defs[agg.last.prop].is_tag =>
    LET prop == agg.defs[agg.last.prop]
        mods == agg.mods[agg.last.prop]
    IN /\ prop.min_max_each =>
            agg.last.value = _force_range(prop, ForcedAfterEach(prop, mods, Len(mods)))
       /\ ~prop.min_max_each =>
            agg.last.value =
              _force_range(prop, prop.base + SumValues(mods, AllSources(mods)))
       /\ ModifierValues(mods) = <<-1, -1, -1, -1, 5>> =>
            agg.last.value = IF prop.min_max_each THEN 5 ELSE 1

C24_Witness ==
  /\ agg.last.op = "get_prop"
  /\ agg.defs[agg.last.prop].min_max_each
  /\ ModifierValues(agg.mods[agg.last.prop]) = <<-1, -1, -1, -1, 5>>
  /\ agg.last.value = 5
\* The parser of single expressions of the rules that hold the requirement
LeafParse(text) ==
  IF req.rules = "base_models" THEN PropExpression_parse(text) ELSE models_parse(text)

\* C26: for every string that matches the requirement grammar, rendering the
\* expression parsed from it gives back exactly the string.
C26_RoundTrip ==
  req.op = "repr" => req.out = Some(req.text)

\* C28: of the comparison suffixes an expression carries exactly one decides:
\* less_than if present, otherwise single if present, otherwise value, which
\* is 1 by default.
C28_SuffixPrecedence ==
  req.op = "evaluate" /\ req.parsed[1].node = "PropExpression"
    /\ req.out[1].lookup.has_prop =>
      LET e == req.parsed[1]
          lookup == req.out[1].lookup
      IN req.out[1].success =
           IF e.less_than # None THEN lookup.ranks < e.less_than[1]
           ELSE IF e.single # None THEN lookup.max_ranks >= e.single[1]
           ELSE IF e.value # None THEN lookup.ranks >= e.value[1]
           ELSE lookup.ranks >= 1

\* C29: a requirement string that begins with "!" or with "-" parses to
\* NoneOf wrapping the parse of the rest of the string, and is satisfied
\* exactly when the requirement without the prefix is not.
C29_PrefixNegates ==
  req.op \in {"parse_req", "evaluate"} /\ Head(req.text) \in {"!", "-"}
    /\ LeafParse(Tail(req.text)) # ValueError =>
      /\ req.parsed = Some(NoneOf(<<LeafParse(Tail(req.text))>>))
      /\ req.op = "evaluate" =>
           req.out[1].success =
             ~evaluate(LeafParse(Tail(req.text)), req.out[1].lookup, req.rules)

\* C27: evaluating a requirement, directly or through meets_requirements,
\* never mutates character state: the persisted model, the registered
\* controllers and their effective, granted and discount values and the
\* attribute grants are after the evaluation what they were before it.
C27_EvaluationMutatesNothing ==
  [][lastOp'.op = "meets_requirements" =>
       UNCHANGED <<purchased, model_keys, primary_class, starting_class,
                   awarded_cp, linked, eff, granted, discount, attr>>]_vars

\* C30: whatever class levels were purchased, get("level") is the sum of the
\* ranks of all classes and get of a sphere tag is the sum of the ranks of the
\* classes of that sphere (caster: of the classes that are not martial); with
\* fighter 3 and wizard 5 that is martial 3, arcane 5, caster 5 and level 8,
\* and level:8 is met while level:9 is not.
C30_LevelAndSphereSums ==
  LET held == sheet.classes
      last == sheet.last
      Expected(a) ==
        CASE a = "level" -> held["fighter"] + held["wizard"] + held["druid"]
          [] a = "martial" -> held["fighter"]
          [] a = "arcane" -> held["wizard"]
          [] a = "divine" -> held["druid"]
          [] a = "caster" -> held["wizard"] + held["druid"]
  IN /\ last.op = "get" => last.value = Expected(last.id)
     /\ last.op = "meets_requirements" =>
          last.success = (Expected(last.id) >= last.value)
     /\ held = [c \in SheetClasses |->
                   IF c = "fighter" THEN 3 ELSE IF c = "wizard" THEN 5 ELSE 0] =>
          /\ last.op = "get" =>
               last.value = CASE last.id = "level" -> 8
                              [] last.id = "martial" -> 3
                              [] last.id = "divine" -> 0
                              [] OTHER -> 5
          /\ last.op = "meets_requirements" /\ last.id = "level" =>
               last.success = (last.value <= 8)

C30_Witness ==
  /\ sheet.classes["fighter"] = 3 /\ sheet.classes["wizard"] = 5
  /\ sheet.classes["druid"] = 0
  /\ sheet.last = [op |-> "get", id |-> "caster", value |-> 5]

\* C31: a requirement X$n on a summed attribute is met exactly when one class
\* counted by X holds at least n ranks, whatever the total of X; with wizard 5
\* and druid 7 the caster total is 12, caster$7 is met and caster$8 is not.
C31_SingleIsOneFeature ==
  LET held == sheet.classes
      last == sheet.last
      Counted(a) ==
        CASE a = "level" -> SheetClasses
          [] a = "martial" -> {"fighter"}
          [] a = "arcane" -> {"wizard"}
          [] a = "divine" -> {"druid"}
          [] a = "caster" -> {"wizard", "druid"}
  IN /\ last.op = "meets_single" =>
          last.success = (\E c \in Counted(last.id) : held[c] >= last.value)
     /\ (held["wizard"] = 5 /\ held["druid"] = 7 /\ last.id = "caster") =>
          /\ last.op = "get" => last.value = 12
          /\ last.op = "meets_single" => last.success = (last.value <= 7)

C31_Witness ==
  /\ sheet.classes["wizard"] = 5 /\ sheet.classes["druid"] = 7
  /\ sheet.last = [op |-> "meets_single", id |-> "caster", value |-> 8,
                   success |-> FALSE]

\* C32: for a feature that takes options, get of the bare feature id is the
\* sum of the ranks the character holds over all options of the feature, and
\* the single form is the largest number of ranks held of one option.
C32_BareIdAggregates ==
  LET held == opts.held
      last == opts.last
      Instances(f) == {k \in OptionKeys : k[1] = f}
      Largest(f) == CHOOSE m \in {held[k] : k \in Instances(f)} :
                      \A k \in Instances(f) : held[k] <= m
  IN last.op = "get" =>
       last.value = IF last.single = None THEN SumOver(Instances(last.id), held)
                    ELSE Largest(last.id)

\* C33: options_values_for_feature(id, exclude_taken=true) holds no option
\* the character has taken for the feature, and is empty when the feature
\* allows one option only and one is taken.
C33_ExcludesTaken ==
  LET held == opts.held
      last == opts.last
      Taken(f) == {o \in OptionsOf(f) : held[<<f, o>>] > 0}
  IN last.op = "options_values_for_feature" =>
       /\ last.values \cap Taken(last.id) = {}
       /\ (last.id = "single-option" /\ Taken(last.id) # {}) => last.values = {}

\* C34: for a feature whose options are inherited, the options that can be
\* purchased are the options held in the other feature with at least the
\* required ranks, less the options taken for this feature; once options
\* were taken and none remain, can_purchase of the bare feature fails
\* without needs_option.
C34_InheritedOptions ==
  LET held == opts.held
      last == opts.last
      Inherited == {"inherited-option", "inherited-with-ranks"}
      Required(f) == IF f = "inherited-option" THEN 1 ELSE 4
      Taken(f) == {o \in OptionsOf(f) : held[<<f, o>>] > 0}
      Remaining(f) ==
        {o \in OptionsOf(f) : held[<<"specific-options", o>>] >= Required(f)}
          \ Taken(f)
  IN (last.op \in {"options_values_for_feature", "can_purchase"}
        /\ last.id \in Inherited) =>
       /\ last.op = "options_values_for_feature" => last.values = Remaining(last.id)
       /\ (last.op = "can_purchase" /\ Taken(last.id) # {} /\ Remaining(last.id) = {})
            => ~last.rd.success /\ ~last.rd.needs_option

\* C35: with grants that close a cycle the cascade of one purchase need not
\* end: on a new character of the cyclic ruleset the purchase of one rank
\* of grants-skill runs until the interpreter's recursion limit.
C35_CycleDoesNotTerminate ==
  [][(lastOp.op = "new" /\ purchased'["grants-skill"] = 1) => overflow']_vars

C35_Witness ==
  /\ ruleset = "cyclic" /\ overflow /\ lastOp.op = "purchase"
  /\ purchased = [f \in Features |-> IF f = "grants-skill" THEN 1 ELSE 0]

\* C36: a feature is not sold back while a feature the character holds
\* requires it: with basic-skill held, which requires granted-skill:1, no
\* purchase takes purchased ranks of granted-skill away and leaves fewer
\* than the one rank required.
C36_NoSellbackOfRequirement ==
  [][~(/\ purchased["basic-skill"] > 0
       /\ purchased'["basic-skill"] > 0
       /\ purchased'["granted-skill"] < purchased["granted-skill"]
       /\ eff'["granted-skill"] < 1)]_vars

\* C37: after any sequence of purchases and sellbacks (the sellback of a
\* feature that grants ranks or discounts to others included) the CP the
\* character has available is never negative.
C37_AvailableCpNeverNegative == cp_value(Cur("forward")) >= 0

\* C38: can_decrease(n) fails whenever n exceeds purchased_ranks, whatever
\* ranks were granted, and purchased_ranks is never negative.
C38_OnlyPurchasedRanksSellBack ==
  \A f \in Features :
    /\ purchased[f] >= 0
    /\ \A n \in 1..(MaxDelta + 1) :
         n > purchased[f] => ~can_decrease(Cur("forward"), f, n).success

C38_Witness ==
  /\ granted["granted-skill"] > 0 /\ purchased["granted-skill"] = 0
  /\ eff["granted-skill"] > 0
  /\ lastOp.op = "purchase" /\ ~lastOp.success

\* C39: paid_ranks equals purchased_ranks while purchased_ranks +
\* granted_ranks <= max_ranks and max(max_ranks - granted_ranks, 0) otherwise;
\* a step that changes the grants of a feature leaves its purchased_ranks
\* alone, and once the grants are gone paid_ranks is purchased_ranks again.
C39_PaidRanks ==
  [][\A f \in Features :
       LET paid == paid_ranks_of(purchased'[f], granted'[f], max_ranks(f))
       IN /\ paid = IF purchased'[f] + granted'[f] <= max_ranks(f)
                      THEN purchased'[f]
                      ELSE Max(max_ranks(f) - granted'[f], 0)
          /\ granted'[f] # granted[f] => purchased'[f] = purchased[f]
          /\ (granted[f] > 0 /\ granted'[f] = 0) => paid = purchased[f]]_vars

\* Two purchased ranks of granted-skill, refunded in part or in whole by the
\* grants of grants-skill and list-skill.
C39_Witness ==
  /\ purchased["granted-skill"] = 2
  /\ granted["granted-skill"] >= 1
  /\ paid_ranks(Cur("forward"), "granted-skill") = Max(2 - granted["granted-skill"], 0)
  /\ paid_ranks(Cur("forward"), "granted-skill") < 2

\* The amounts a grants declaration lists for the target t
AmountsFor(f, t) ==
  SelectSeq(Declared(GrantsDecl(f)), LAMBDA pair : pair[1] = t)

\* C40: when the grants of a feature name a target more than once, the
\* target's granted ranks rise by the sum of the listed amounts when the
\* feature activates and fall by the same sum when it deactivates (no other
\* feature changing between active and inactive in the same step).
C40_DuplicateTargetsAreSummed ==
  [][\A f, t \in Features :
       (/\ Len(AmountsFor(f, t)) > 1
        /\ \A g \in Features \ {f} : (eff[g] > 0) = (eff'[g] > 0))
       => LET sum == SumPairs(Declared(GrantsDecl(f)), t)
          IN /\ (eff[f] = 0 /\ eff'[f] > 0) => granted'[t] = granted[t] + sum
             /\ (eff[f] > 0 /\ eff'[f] = 0) => granted'[t] = granted[t] - sum]_vars

====
